---------------------------- MODULE Spec2Model ----------------------------
(***************************************************************************)
(* Portfolio valuation and analytics engine of da-portfolio               *)
(* (lib/finance.ts): calculatePortfolioHistory with its helpers            *)
(* shouldRebalance, calculateUnits and calculateValue, and                 *)
(* calculateMetrics, and validateAssetsForDateRange.                       *)
(*                                                                         *)
(* Numbers.  The engine computes on JavaScript numbers.  The model        *)
(* computes on exact rationals <<n, d>> in lowest terms with d > 0; a     *)
(* division by zero yields <<1, 0>> (Infinity), <<-1, 0>> (-Infinity) or  *)
(* <<0, 0>> (NaN) as in JavaScript.  Rounding of IEEE doubles is not      *)
(* modelled.                                                               *)
(*                                                                         *)
(* Dates.  A date string 'YYYY-MM-DD' is the record                       *)
(* [year, month, day] with month in 1..12.  new Date('YYYY-MM-DD') is     *)
(* midnight UTC of that day; getMonth() and getFullYear() read it in the  *)
(* local time zone of the runtime, which is the same calendar day at a    *)
(* UTC offset >= 0 and the previous calendar day at a UTC offset < 0.     *)
(***************************************************************************)
EXTENDS Integers, Sequences, FiniteSets, TLC

VARIABLES
    historicalData,     \* argument: sequence of [date, prices] records
    dataGiven,          \* FALSE when the historicalData argument is undefined/null
    weights,            \* argument: ticker -> percentage
    initialInvestment,  \* argument
    rebalanceFrequency, \* argument: "none" | "quarterly" | "annually"
    tz,                 \* runtime time zone: "utcOrEast" | "west"
    pc,                 \* position: "start" | "loop" | "done" | "metrics"
                        \*           | "history threw" | "metrics threw"
    i,                  \* loop index of calculatePortfolioHistory (0-based)
    units,              \* let units
    lastRebalanceDate,  \* let lastRebalanceDate
    results,            \* const results
    log,                \* per iteration: what the loop body read and decided
    sp500Data,          \* benchmark argument of calculateMetrics
    metrics,            \* result of calculateMetrics
    validation,         \* result of validateAssetsForDateRange
                        \* (PortfolioBuilder: assetValidation)
    storage,            \* localStorage: the configurations saved under
                        \* 'crypto-portfolio-configs', <<>> when unset
    now,                \* the clock: Date.now() in milliseconds
    selectedAssets,     \* PortfolioBuilder state
    selectedRef,        \* the array object selectedAssets refers to: that
                        \* of a preset, of a saved portfolio, or its own
    startDate,          \* PortfolioBuilder state
    endDate,            \* PortfolioBuilder state
    marketData,         \* PortfolioBuilder state
    inFlight,           \* the started fetchData calls that await their response
    events,             \* number of user events handled so far
    request,            \* market-data route: the query of the request
    allData,            \* market-data route: the rows fetched per symbol
    filledData          \* market-data route: the response

\* the state of the dashboard, its storage and the market-data route
dashboard == <<storage, now, selectedAssets, selectedRef, startDate, endDate,
               marketData, inFlight, events, request, allData, filledData>>

vars == <<historicalData, dataGiven, weights, initialInvestment,
          rebalanceFrequency, tz, pc, i, units, lastRebalanceDate, results,
          log, sp500Data, metrics, validation, storage, now, selectedAssets,
          selectedRef, startDate, endDate, marketData, inFlight, events,
          request, allData, filledData>>

---------------------------------------------------------------------------
(* Bounds of the model *)

MaxDays == 3

---------------------------------------------------------------------------
(* JavaScript numbers as exact rationals *)

Abs(n) == IF n < 0 THEN 0 - n ELSE n

RECURSIVE GCD(_, _)
GCD(a, b) == IF b = 0 THEN a ELSE GCD(b, a % b)

\* the number n/d (d may be negative); d = 0 gives Infinity, -Infinity or NaN
Norm(n, d) ==
    IF d = 0 THEN <<(IF n > 0 THEN 1 ELSE IF n < 0 THEN 0 - 1 ELSE 0), 0>>
    ELSE LET s == IF d < 0 THEN 0 - 1 ELSE 1
             g == GCD(Abs(n), Abs(d))
         IN  <<(s * n) \div g, (s * d) \div g>>

Num(n) == <<n, 1>>
Zero == <<0, 1>>

IsFinite(a) == a[2] # 0

NaN == <<0, 0>>
Infinity == <<1, 0>>

IsNaN(a) == a = NaN

\* a + b; Infinity + Infinity is Infinity, Infinity + -Infinity is NaN
RAdd(a, b) ==
    IF a[2] = 0 /\ b[2] = 0 THEN (IF a = b THEN a ELSE NaN)
    ELSE IF a[2] = 0 \/ b[2] = 0
         THEN Norm(a[1] * b[2] + b[1] * a[2], 0)
    ELSE LET g == GCD(a[2], b[2])
         IN  Norm(a[1] * (b[2] \div g) + b[1] * (a[2] \div g),
                  (a[2] \div g) * b[2])
RSub(a, b) == RAdd(a, <<0 - b[1], b[2]>>)
RMul(a, b) ==
    IF a[2] = 0 \/ b[2] = 0 \/ a[1] = 0 \/ b[1] = 0
    THEN Norm(a[1] * b[1], a[2] * b[2])
    ELSE LET g == GCD(Abs(a[1]), b[2])
             h == GCD(Abs(b[1]), a[2])
         IN  Norm((a[1] \div g) * (b[1] \div h),
                  (a[2] \div h) * (b[2] \div g))
\* a / b as a * (1 / b); 1 / 0 is Infinity and 1 / Infinity is 0
RDiv(a, b) == RMul(a, Norm(b[2], b[1]))

\* a < b; every comparison with NaN is false
RLess(a, b) ==
    IF a[2] = 0 /\ b[2] = 0 THEN a[1] < 0 /\ b[1] > 0
    ELSE a[1] * b[2] < b[1] * a[2]
RPositive(a) == a[1] > 0 /\ a[2] > 0

\* Math.max(a, b) and Math.min(a, b): NaN when either argument is NaN
RMax(a, b) == IF IsNaN(a) \/ IsNaN(b) THEN NaN ELSE IF RLess(a, b) THEN b ELSE a
RMin(a, b) == IF IsNaN(a) \/ IsNaN(b) THEN NaN ELSE IF RLess(b, a) THEN b ELSE a

RECURSIVE SumBetween(_, _, _)
\* the sum of xs[lo], ..., xs[hi], added up by halves
SumBetween(xs, lo, hi) ==
    IF lo > hi THEN Zero
    ELSE IF lo = hi THEN xs[lo]
    ELSE RAdd(SumBetween(xs, lo, (lo + hi) \div 2),
              SumBetween(xs, (lo + hi) \div 2 + 1, hi))

\* array.reduce((a, b) => a + b, 0)
RSum(xs) == SumBetween(xs, 1, Len(xs))

---------------------------------------------------------------------------
(* Math.pow and Math.sqrt.  A result that is no rational number is kept   *)
(* as the term <<op, a, b>> of its operator and operands; such a term     *)
(* stands for a finite real number.  Square roots are powers with the     *)
(* exponent 1/2, and a term used as a divisor or factor is a square root  *)
(* or a product of square roots, which is positive.                       *)

IsTerm(x) == Len(x) = 3
Half == <<1, 2>>

RECURSIVE SqrtSearch(_, _, _)
\* the greatest r in lo..hi with r * r <= n
SqrtSearch(n, lo, hi) ==
    IF lo >= hi THEN lo
    ELSE LET mid == (lo + hi + 1) \div 2
         IN  IF mid * mid <= n THEN SqrtSearch(n, mid, hi)
             ELSE SqrtSearch(n, lo, mid - 1)

ISqrt(n) == SqrtSearch(n, 0, IF n < 46340 THEN n ELSE 46340)
IsSquare(n) == LET r == ISqrt(n) IN r * r = n

\* Math.sqrt(x) of a rational x
Sqrt(x) ==
    IF IsNaN(x) \/ x[1] < 0 THEN NaN
    ELSE IF ~IsFinite(x) THEN Infinity
    ELSE IF IsSquare(x[1]) /\ IsSquare(x[2]) THEN <<ISqrt(x[1]), ISqrt(x[2])>>
    ELSE <<"pow", x, Half>>

\* Math.pow(base, exponent) of a rational base >= 0 or NaN and a finite
\* exponent > 0
Pow(base, exponent) ==
    IF IsNaN(base) THEN NaN
    ELSE IF ~IsFinite(base) THEN Infinity
    ELSE IF base = Zero \/ base = Num(1) \/ exponent = Num(1) THEN base
    ELSE IF exponent = Half THEN Sqrt(base)
    ELSE <<"pow", base, exponent>>

\* a - b, a * b and a / b where an operand may be a term
Sub(a, b) ==
    IF ~IsTerm(a) /\ ~IsTerm(b) THEN RSub(a, b)
    ELSE IF ~IsTerm(a) /\ ~IsFinite(a) THEN a
    ELSE IF ~IsTerm(b) /\ ~IsFinite(b) THEN RSub(Zero, b)
    ELSE <<"sub", a, b>>

Mul(a, b) ==
    IF ~IsTerm(a) /\ ~IsTerm(b) THEN RMul(a, b)
    ELSE IF ~IsTerm(a) /\ (~IsFinite(a) \/ a = Zero) THEN a
    ELSE IF ~IsTerm(b) /\ (~IsFinite(b) \/ b = Zero) THEN b
    ELSE <<"mul", a, b>>

Div(a, b) ==
    IF ~IsTerm(a) /\ ~IsTerm(b) THEN RDiv(a, b)
    ELSE IF ~IsTerm(a) /\ (~IsFinite(a) \/ a = Zero) THEN a
    ELSE IF ~IsTerm(b) /\ ~IsFinite(b)
         THEN (IF IsNaN(b) THEN NaN ELSE Zero)
    ELSE <<"div", a, b>>

---------------------------------------------------------------------------
(* Date strings and the Date object *)

Date(y, m, d) == [year |-> y, month |-> m, day |-> d]

NoDate == Date(0, 0, 0)

\* the order of 'YYYY-MM-DD' strings
DateKey(dt) == dt.year * 10000 + dt.month * 100 + dt.day

IsLeap(y) == (y % 4 = 0 /\ y % 100 # 0) \/ y % 400 = 0

DaysInMonth(y, m) ==
    IF m = 2 THEN (IF IsLeap(y) THEN 29 ELSE 28)
    ELSE IF m \in {4, 6, 9, 11} THEN 30 ELSE 31

PrevDay(dt) ==
    IF dt.day > 1 THEN Date(dt.year, dt.month, dt.day - 1)
    ELSE IF dt.month > 1
         THEN Date(dt.year, dt.month - 1, DaysInMonth(dt.year, dt.month - 1))
         ELSE Date(dt.year - 1, 12, 31)

\* the local calendar day of new Date(dateString)
LocalDay(dt, zone) == IF zone = "west" THEN PrevDay(dt) ELSE dt

\* new Date(s).getFullYear() and new Date(s).getMonth() (0-based)
getFullYear(dt, zone) == LocalDay(dt, zone).year
getMonth(dt, zone) == LocalDay(dt, zone).month - 1

RECURSIVE DaysBeforeMonth(_, _)
\* the days of year y before its month m
DaysBeforeMonth(y, m) ==
    IF m = 1 THEN 0 ELSE DaysBeforeMonth(y, m - 1) + DaysInMonth(y, m - 1)

\* new Date(s).getTime() in days: getTime() counts from midnight UTC, in
\* every time zone
DayNumber(dt) ==
    LET y == dt.year - 1
    IN  365 * y + (y \div 4) - (y \div 100) + (y \div 400)
        + DaysBeforeMonth(dt.year, dt.month) + dt.day

\* date.substring(0, 7)
MonthOf(dt) == [year |-> dt.year, month |-> dt.month]

\* the date of S with as many dates of S before it as after it (one more
\* before it when their number is odd)
MiddleDate(S) ==
    CHOOSE x \in S :
        Cardinality({y \in S : DateKey(y) < DateKey(x)}) = Cardinality(S) \div 2

RECURSIVE SortDates(_)
RECURSIVE SortAround(_, _)
\* the dates of S before m in ascending order, m, and those after m
SortAround(S, m) ==
    SortDates({y \in S : DateKey(y) < DateKey(m)})
    \o <<m>>
    \o SortDates({y \in S : DateKey(y) > DateKey(m)})

\* the dates of S in ascending order
SortDates(S) == IF S = {} THEN <<>> ELSE SortAround(S, MiddleDate(S))

---------------------------------------------------------------------------
(* DailyData: a date and the prices keyed by ticker; a ticker missing     *)
(* from DOMAIN prices is an absent key (undefined).                       *)

HasKey(dayData, ticker) == ticker \in DOMAIN dayData.prices

\* variant: price !== undefined
TruthyDefinedOnly(dayData, ticker) == HasKey(dayData, ticker)

\* price && price > 0
Truthy(dayData, ticker) ==
    HasKey(dayData, ticker) /\ dayData.prices[ticker] > 0

RECURSIVE SumOver(_, _, _)
\* sum of f[t] over the tickers t of S, from start
SumOver(S, f, start) ==
    IF S = {} THEN start
    ELSE LET t == CHOOSE x \in S : TRUE
         IN  SumOver(S \ {t}, f, RAdd(start, f[t]))

\* variant: the weight used as a fraction, not divided by 100
calculateUnitsRawWeight(w, dayData, portfolioValue) ==
    [ticker \in DOMAIN w |->
        IF HasKey(dayData, ticker) /\ dayData.prices[ticker] > 0
        THEN RDiv(RMul(portfolioValue, Num(w[ticker])),
                  Num(dayData.prices[ticker]))
        ELSE Zero]

RECURSIVE PricedWeight(_, _, _)
\* the sum of the weights of the tickers of S that dayData prices
PricedWeight(S, w, dayData) ==
    IF S = {} THEN 0
    ELSE LET t == CHOOSE x \in S : TRUE
         IN  (IF HasKey(dayData, t) /\ dayData.prices[t] > 0
              THEN w[t] ELSE 0) + PricedWeight(S \ {t}, w, dayData)

\* variant: the weight of the unpriced tickers is spread pro rata over the
\* priced ones
calculateUnitsProRata(w, dayData, portfolioValue) ==
    [ticker \in DOMAIN w |->
        IF HasKey(dayData, ticker) /\ dayData.prices[ticker] > 0
        THEN RDiv(RMul(portfolioValue,
                       Norm(w[ticker], 100)),
                  RMul(Num(dayData.prices[ticker]),
                       Norm(PricedWeight(DOMAIN w, w, dayData),
                            PricedWeight(DOMAIN w, w, [prices |-> w]))))
        ELSE Zero]

calculateUnits(w, dayData, portfolioValue) ==
    [ticker \in DOMAIN w |->
        IF Truthy(dayData, ticker)
        THEN RDiv(RMul(portfolioValue, Norm(w[ticker], 100)),
                  Num(dayData.prices[ticker]))
        ELSE Zero]

\* one term of calculateValue's sum
Contribution(dayData, currentUnits, ticker) ==
    IF HasKey(dayData, ticker)
    THEN RMul(currentUnits[ticker], Num(dayData.prices[ticker]))
    ELSE Zero

calculateValue(dayData, currentUnits) ==
    SumOver(DOMAIN currentUnits,
            [ticker \in DOMAIN currentUnits |->
                Contribution(dayData, currentUnits, ticker)],
            Zero)

---------------------------------------------------------------------------
(* shouldRebalance *)

\* variant: 'none' falls through to the quarterly rule
shouldRebalanceNoneAsQuarterly(currentDate, lastDate, frequency, zone) ==
    IF frequency \in {"none", "quarterly"}
    THEN LET currentQuarter == getMonth(currentDate, zone) \div 3
             lastQuarter == getMonth(lastDate, zone) \div 3
             currentYear == getFullYear(currentDate, zone)
             lastYear == getFullYear(lastDate, zone)
         IN  currentYear > lastYear
             \/ (currentYear = lastYear /\ currentQuarter > lastQuarter)
    ELSE getFullYear(currentDate, zone) > getFullYear(lastDate, zone)

shouldRebalance(currentDate, lastDate, frequency, zone) ==
    IF frequency = "none" THEN FALSE
    ELSE IF frequency = "quarterly"
    THEN LET currentQuarter == getMonth(currentDate, zone) \div 3
             lastQuarter == getMonth(lastDate, zone) \div 3
             currentYear == getFullYear(currentDate, zone)
             lastYear == getFullYear(lastDate, zone)
         IN  currentYear > lastYear
             \/ (currentYear = lastYear /\ currentQuarter > lastQuarter)
    ELSE IF frequency = "annually"
    THEN getFullYear(currentDate, zone) > getFullYear(lastDate, zone)
    ELSE FALSE

---------------------------------------------------------------------------
(* calculatePortfolioHistory.  The loop state is                          *)
(* st = [units, lastRebalanceDate, results, log]; idx is the 0-based loop *)
(* index.  The log holds, per iteration, what the body read and decided.  *)

\* variant: historicalData.length === 0 without the null check
IsEmptyInputLengthOnly(given, hd) == given /\ Len(hd) = 0

\* !historicalData || historicalData.length === 0
IsEmptyInput(given, hd) == ~given \/ Len(hd) = 0

\* variant: the loop stops one record early
LoopContinuesOffByOne(idx, hd) == idx < Len(hd) - 1

\* i < historicalData.length
LoopContinues(idx, hd) == idx < Len(hd)

\* variant: a rebalance re-derives the units from initialInvestment
LoopBodyReinvestInitial(st, hd, w, investment, frequency, zone, idx) ==
    LET day == hd[idx + 1]
        doRebalance ==
            idx > 0
            /\ shouldRebalance(day.date, st.lastRebalanceDate, frequency, zone)
        currentValue == Num(investment)
        newUnits == IF doRebalance
                    THEN calculateUnits(w, day, currentValue)
                    ELSE st.units
        newLast == IF doRebalance THEN day.date ELSE st.lastRebalanceDate
        totalValue == calculateValue(day, newUnits)
    IN  [units |-> newUnits,
         lastRebalanceDate |-> newLast,
         results |-> Append(st.results, [date |-> day.date, value |-> totalValue]),
         log |-> Append(st.log,
                    [rebalanced |-> doRebalance,
                     lastBefore |-> st.lastRebalanceDate,
                     lastAfter |-> newLast,
                     unitsBefore |-> st.units,
                     valueBefore |-> currentValue,
                     unitsAfter |-> newUnits])]

\* variant: the value reported for a rebalance date is the value before
\* the rebalance
LoopBodyReportsValueBefore(st, hd, w, investment, frequency, zone, idx) ==
    LET day == hd[idx + 1]
        doRebalance ==
            idx > 0
            /\ shouldRebalance(day.date, st.lastRebalanceDate, frequency, zone)
        currentValue == calculateValue(day, st.units)
        newUnits == IF doRebalance
                    THEN calculateUnits(w, day, currentValue)
                    ELSE st.units
        newLast == IF doRebalance THEN day.date ELSE st.lastRebalanceDate
    IN  [units |-> newUnits,
         lastRebalanceDate |-> newLast,
         results |-> Append(st.results, [date |-> day.date, value |-> currentValue]),
         log |-> Append(st.log,
                    [rebalanced |-> doRebalance,
                     lastBefore |-> st.lastRebalanceDate,
                     lastAfter |-> newLast,
                     unitsBefore |-> st.units,
                     valueBefore |-> currentValue,
                     unitsAfter |-> newUnits])]

LoopBody(st, hd, w, investment, frequency, zone, idx) ==
    LET day == hd[idx + 1]
        doRebalance ==
            idx > 0
            /\ shouldRebalance(day.date, st.lastRebalanceDate, frequency, zone)
        currentValue == calculateValue(day, st.units)
        newUnits == IF doRebalance
                    THEN calculateUnits(w, day, currentValue)
                    ELSE st.units
        newLast == IF doRebalance THEN day.date ELSE st.lastRebalanceDate
        totalValue == calculateValue(day, newUnits)
    IN  [units |-> newUnits,
         lastRebalanceDate |-> newLast,
         results |-> Append(st.results, [date |-> day.date, value |-> totalValue]),
         log |-> Append(st.log,
                    [rebalanced |-> doRebalance,
                     lastBefore |-> st.lastRebalanceDate,
                     lastAfter |-> newLast,
                     unitsBefore |-> st.units,
                     valueBefore |-> currentValue,
                     unitsAfter |-> newUnits])]

\* the loop state before the first iteration (historicalData non-empty)
LoopEntry(hd, w, investment) ==
    [units |-> calculateUnits(w, hd[1], Num(investment)),
     lastRebalanceDate |-> hd[1].date,
     results |-> <<>>,
     log |-> <<>>]

RECURSIVE RunLoop(_, _, _, _, _, _, _)
\* the loop state when the loop started in st at index idx ends
RunLoop(st, hd, w, investment, frequency, zone, idx) ==
    IF LoopContinues(idx, hd)
    THEN RunLoop(LoopBody(st, hd, w, investment, frequency, zone, idx),
                 hd, w, investment, frequency, zone, idx + 1)
    ELSE st

\* calculatePortfolioHistory as a function of its arguments
\* (on the arguments on which it returns)
calculatePortfolioHistory(given, hd, w, investment, frequency, zone) ==
    IF IsEmptyInput(given, hd) THEN <<>>
    ELSE RunLoop(LoopEntry(hd, w, investment),
                 hd, w, investment, frequency, zone, 0).results

---------------------------------------------------------------------------
(* calculateMetrics *)

NoBenchmark == [given |-> FALSE, rows |-> <<>>]

\* portfolioValues.length < 2
IsDegenerate(portfolioValues) == Len(portfolioValues) < 2

\* variant: a final balance of 0 where no growth can be measured
DegenerateMetricsZeroBalance(investment) ==
    [initialInvestment |-> Num(investment),
     finalBalance |-> Zero,
     totalReturn |-> Zero,
     cagr |-> Zero,
     volatility |-> Zero,
     sharpeRatio |-> Zero,
     bestDay |-> Zero,
     worstDay |-> Zero,
     maxDrawdown |-> Zero]

\* the object returned when portfolioValues.length < 2
DegenerateMetrics(investment) ==
    [initialInvestment |-> Num(investment),
     finalBalance |-> Num(investment),
     totalReturn |-> Zero,
     cagr |-> Zero,
     volatility |-> Zero,
     sharpeRatio |-> Zero,
     bestDay |-> Zero,
     worstDay |-> Zero,
     maxDrawdown |-> Zero]

\* variant: finalBalance / initialInvestment
TotalReturnRatio(finalBalance, investment) ==
    RDiv(finalBalance, Num(investment))

\* (finalBalance - initialInvestment) / initialInvestment
TotalReturn(finalBalance, investment) ==
    RDiv(RSub(finalBalance, Num(investment)), Num(investment))

DaysPerYear == 365

\* ANNUAL_RISK_FREE_RATE = 0.03
ANNUAL_RISK_FREE_RATE == <<3, 100>>

Null == <<>>
Undefined == <<"undefined">>

\* a truthy number: neither 0 nor NaN nor null
NumTruthy(x) == x # Null /\ x # Zero /\ ~IsNaN(x)

\* a <= b
RLeq(a, b) == ~IsNaN(a) /\ ~IsNaN(b) /\ (a = b \/ RLess(a, b))

\* (endDate.getTime() - startDate.getTime()) / (1000 * 3600 * 24 * 365)
Years(portfolioValues) ==
    RDiv(Num(DayNumber(portfolioValues[Len(portfolioValues)].date)
             - DayNumber(portfolioValues[1].date)),
         Num(DaysPerYear))

\* years > 0 ? Math.pow(finalBalance / initialInvestment, 1 / years) - 1 : 0
Cagr(finalBalance, investment, years) ==
    IF RLess(Zero, years)
    THEN Sub(Pow(RDiv(finalBalance, Num(investment)), RDiv(Num(1), years)),
             Num(1))
    ELSE Zero

\* dailyReturns: r = value[i] / value[i - 1] - 1 for i >= 1
DailyReturns(portfolioValues) ==
    [k \in 1..(Len(portfolioValues) - 1) |->
        RSub(RDiv(portfolioValues[k + 1].value, portfolioValues[k].value),
             Num(1))]

\* the element of a set of one element
Only(S) == CHOOSE x \in S : TRUE

MeanReturn(dailyReturns) == RDiv(RSum(dailyReturns), Num(Len(dailyReturns)))

\* Math.pow(x, 2)
Square(x) == RMul(x, x)

\* the summands of reduce((a, b) => a + Math.pow(b - meanReturn, 2), 0)
SquaredDeviations(dailyReturns, meanReturn) ==
    [k \in 1..Len(dailyReturns) |-> Square(RSub(dailyReturns[k], meanReturn))]

VarianceAbout(dailyReturns, meanReturn) ==
    RDiv(RSum(SquaredDeviations(dailyReturns, meanReturn)),
         Num(Len(dailyReturns)))

\* the population variance of the daily returns
Variance(dailyReturns) ==
    Only({VarianceAbout(dailyReturns, meanReturn) :
             meanReturn \in {MeanReturn(dailyReturns)}})

\* Math.sqrt(variance) * Math.sqrt(365)
Volatility(dailyReturns) ==
    Mul(Sqrt(Variance(dailyReturns)), Sqrt(Num(DaysPerYear)))

\* variant: the division without its guard
SharpeRatioUnguarded(cagr, volatility) ==
    Div(Sub(cagr, ANNUAL_RISK_FREE_RATE), volatility)

\* volatility !== 0 ? (cagr - ANNUAL_RISK_FREE_RATE) / volatility : 0
SharpeRatio(cagr, volatility) ==
    IF volatility # Zero
    THEN Div(Sub(cagr, ANNUAL_RISK_FREE_RATE), volatility)
    ELSE Zero

RECURSIVE MaxBetween(_, _, _)
\* the greatest of xs[lo], ..., xs[hi], taken by halves
MaxBetween(xs, lo, hi) ==
    IF lo > hi THEN <<0 - 1, 0>>
    ELSE IF lo = hi THEN xs[lo]
    ELSE RMax(MaxBetween(xs, lo, (lo + hi) \div 2),
              MaxBetween(xs, (lo + hi) \div 2 + 1, hi))

RECURSIVE MinBetween(_, _, _)
\* the least of xs[lo], ..., xs[hi], taken by halves
MinBetween(xs, lo, hi) ==
    IF lo > hi THEN Infinity
    ELSE IF lo = hi THEN xs[lo]
    ELSE RMin(MinBetween(xs, lo, (lo + hi) \div 2),
              MinBetween(xs, (lo + hi) \div 2 + 1, hi))

\* Math.max(...xs) and Math.min(...xs)
MathMax(xs) == MaxBetween(xs, 1, Len(xs))
MathMin(xs) == MinBetween(xs, 1, Len(xs))


\* one iteration of the max-drawdown loop on the value currentValue
DrawdownStep(st, currentValue) ==
    IF RLess(st.peak, currentValue)
    THEN [peak |-> currentValue, maxDrawdown |-> st.maxDrawdown]
    ELSE [peak |-> st.peak,
          maxDrawdown |-> RMax(st.maxDrawdown,
                               RDiv(RSub(st.peak, currentValue), st.peak))]

RECURSIVE DrawdownLoop(_, _, _, _)
\* the loop state after the iterations i = lo .. hi entered in the state
\* st: the second half of the iterations from the state after the first
DrawdownLoop(portfolioValues, st, lo, hi) ==
    IF lo > hi THEN st
    ELSE IF lo = hi THEN DrawdownStep(st, portfolioValues[lo + 1].value)
    ELSE Only({DrawdownLoop(portfolioValues, half, (lo + hi) \div 2 + 1, hi) :
                  half \in {DrawdownLoop(portfolioValues, st, lo,
                                         (lo + hi) \div 2)}})

\* let maxDrawdown = 0; let peak = portfolioValues[0].value; the loop
MaxDrawdown(portfolioValues) ==
    DrawdownLoop(portfolioValues,
                 [peak |-> portfolioValues[1].value, maxDrawdown |-> Zero],
                 1, Len(portfolioValues) - 1).maxDrawdown

---------------------------------------------------------------------------
(* calculateMonthlyPerformance *)

\* the entry pushed for a month from its first and last point
MonthEntry(month, monthStart, monthEnd) ==
    [month |-> month,
     return |-> RSub(RDiv(monthEnd.value, monthStart.value), Num(1)),
     startValue |-> monthStart.value,
     endValue |-> monthEnd.value]

\* one iteration of the grouping loop on the point day; started is FALSE
\* while monthStart is null
GroupStep(st, day) ==
    IF ~st.started \/ MonthOf(day.date) # st.currentMonth
    THEN [started |-> TRUE,
          currentMonth |-> MonthOf(day.date),
          monthStart |-> day,
          monthEnd |-> day,
          monthlyData |->
              IF st.started
              THEN Append(st.monthlyData,
                          MonthEntry(st.currentMonth, st.monthStart, st.monthEnd))
              ELSE st.monthlyData]
    ELSE [st EXCEPT !.monthEnd = day]

RECURSIVE GroupLoop(_, _, _, _)
\* the loop state after the points lo .. hi entered in the state st: the
\* second half of the points from the state after the first
GroupLoop(portfolioValues, st, lo, hi) ==
    IF lo > hi THEN st
    ELSE IF lo = hi THEN GroupStep(st, portfolioValues[lo])
    ELSE Only({GroupLoop(portfolioValues, half, (lo + hi) \div 2 + 1, hi) :
                  half \in {GroupLoop(portfolioValues, st, lo,
                                      (lo + hi) \div 2)}})

\* currentMonth = '', monthStart = null, monthEnd = null, monthlyData = []
GroupStart ==
    [started |-> FALSE, currentMonth |-> MonthOf(NoDate),
     monthStart |-> Null, monthEnd |-> Null, monthlyData |-> <<>>]

\* the push of the last month after the loop
FlushMonth(st) ==
    IF st.started
    THEN Append(st.monthlyData,
                MonthEntry(st.currentMonth, st.monthStart, st.monthEnd))
    ELSE st.monthlyData

\* monthlyData after the loop and the push of the last month
MonthlyData(portfolioValues) ==
    FlushMonth(GroupLoop(portfolioValues, GroupStart, 1, Len(portfolioValues)))

\* reduce((best, m) => m.return > best.return ? m : best)
BetterMonth(best, m) == IF RLess(best.return, m.return) THEN m ELSE best

\* reduce((worst, m) => m.return < worst.return ? m : worst)
WorseMonth(worst, m) == IF RLess(m.return, worst.return) THEN m ELSE worst

RECURSIVE BestTo(_, _)
BestTo(monthlyData, k) ==
    IF k = 1 THEN monthlyData[1]
    ELSE BetterMonth(BestTo(monthlyData, k - 1), monthlyData[k])

RECURSIVE WorstTo(_, _)
WorstTo(monthlyData, k) ==
    IF k = 1 THEN monthlyData[1]
    ELSE WorseMonth(WorstTo(monthlyData, k - 1), monthlyData[k])

BestMonth(monthlyData) == BestTo(monthlyData, Len(monthlyData))
WorstMonth(monthlyData) == WorstTo(monthlyData, Len(monthlyData))

\* m.return > 0
IsUpMonth(m) == RLess(Zero, m.return)

\* m.return <= 0
IsDownMonth(m) == RLeq(m.return, Zero)

\* the aggregations over a non-empty monthlyData
MonthlyStats(monthlyData) ==
    [averageReturn |->
         RDiv(RSum([k \in 1..Len(monthlyData) |-> monthlyData[k].return]),
              Num(Len(monthlyData))),
     upMonths |-> Cardinality({k \in 1..Len(monthlyData) :
                                  IsUpMonth(monthlyData[k])}),
     downMonths |-> Cardinality({k \in 1..Len(monthlyData) :
                                    IsDownMonth(monthlyData[k])}),
     bestMonth |-> BestMonth(monthlyData),
     worstMonth |-> WorstMonth(monthlyData),
     monthlyData |-> monthlyData]

\* the result for a monthlyData that may be empty
StatsOrNull(monthlyData) ==
    IF Len(monthlyData) = 0 THEN Null ELSE MonthlyStats(monthlyData)

calculateMonthlyPerformance(portfolioValues) ==
    IF Len(portfolioValues) < 2 THEN Null
    ELSE StatsOrNull(MonthlyData(portfolioValues))

---------------------------------------------------------------------------
(* The S&P 500 correlation of calculateMetrics, and calculateCorrelation *)

stepSize == 5
MinWeeklyPairs == 10
MinAlignedPairs == 20

\* d.value && d.value > 0
IsTradingRow(d) == NumTruthy(d.value) /\ RLess(Zero, d.value)

\* the rows that sp500Data.forEach enters into sp500ByDate and sp500Dates
TradingRows(rows) == SelectSeq(rows, IsTradingRow)

\* sp500ByDate (the last row entered for a date wins) and the sorted
\* sp500Dates (without the repetitions of a date)
Sp500Index(rows) ==
    LET valid == TradingRows(rows)
        keys == {valid[k].date : k \in 1..Len(valid)}
    IN  [byDate |-> [d \in keys |->
                        valid[CHOOSE k \in 1..Len(valid) :
                                  /\ valid[k].date = d
                                  /\ \A j \in (k + 1)..Len(valid) :
                                         valid[j].date # d].value],
         dates |-> SortDates(keys)]

\* variant: the scan runs forward from the first date
ScanFromFirst(dates, k, targetDate) ==
    IF k = 0 THEN NoDate
    ELSE IF DateKey(dates[1]) <= DateKey(targetDate) THEN dates[1]
    ELSE NoDate

\* the date at the last of the indices hits, NoDate when there is none
LastHit(dates, hits) ==
    IF hits = {} THEN NoDate
    ELSE dates[CHOOSE j \in hits : \A h \in hits : h <= j]

\* for (i = k - 1; i >= 0; i--) if (sp500Dates[i] <= targetDate) return
\* sp500Dates[i]: the scan stops at the last index that passes the test
ScanBack(dates, k, targetDate) ==
    LastHit(dates, {j \in 1..k : DateKey(dates[j]) <= DateKey(targetDate)})

\* NoDate is null: no benchmark date is at or before targetDate
findNearestSp500Date(index, targetDate) ==
    IF targetDate \in DOMAIN index.byDate THEN targetDate
    ELSE ScanBack(index.dates, Len(index.dates), targetDate)

\* currSp500Date && prevSp500Date && currSp500Date !== prevSp500Date
StrideTaken(currSp500Date, prevSp500Date) ==
    /\ currSp500Date # NoDate
    /\ prevSp500Date # NoDate
    /\ currSp500Date # prevSp500Date

\* what the stride loop pushes for the points prev and curr
StridePair(index, prev, curr, prevSp500Date, currSp500Date) ==
    IF StrideTaken(currSp500Date, prevSp500Date)
    THEN <<[portfolio |-> RSub(RDiv(curr.value, prev.value), Num(1)),
            sp500 |-> RSub(RDiv(index.byDate[currSp500Date],
                                index.byDate[prevSp500Date]),
                           Num(1))]>>
    ELSE <<>>

\* what the iteration i = idx of the stride loop pushes
StrideAt(portfolioValues, index, idx) ==
    StridePair(index,
               portfolioValues[idx + 1 - stepSize],
               portfolioValues[idx + 1],
               findNearestSp500Date(index,
                   portfolioValues[idx + 1 - stepSize].date),
               findNearestSp500Date(index, portfolioValues[idx + 1].date))

RECURSIVE WeeklyReturns(_, _, _, _)
\* the pairs pushed by the iterations i = lo * stepSize, ...,
\* hi * stepSize of the stride loop: those of the first half of the
\* iterations, then those of the second
WeeklyReturns(portfolioValues, index, lo, hi) ==
    IF lo > hi THEN <<>>
    ELSE IF lo = hi THEN StrideAt(portfolioValues, index, lo * stepSize)
    ELSE WeeklyReturns(portfolioValues, index, lo, (lo + hi) \div 2)
         \o WeeklyReturns(portfolioValues, index, (lo + hi) \div 2 + 1, hi)

\* the number of iterations i = stepSize, 2 * stepSize, ... below the
\* length
LastStride(portfolioValues) == (Len(portfolioValues) - 1) \div stepSize

\* the body of the fallback loop on the point day, whose nearest benchmark
\* date is currSp500Date
AlignedBody(st, index, day, currSp500Date) ==
    IF currSp500Date # NoDate /\ NumTruthy(index.byDate[currSp500Date])
    THEN [lastValidSp500Date |-> currSp500Date,
          lastValidSp500Value |-> index.byDate[currSp500Date],
          lastPortfolioValue |-> day.value,
          pairs |->
              IF /\ st.lastValidSp500Date # NoDate
                 /\ NumTruthy(st.lastValidSp500Value)
                 /\ NumTruthy(st.lastPortfolioValue)
                 /\ currSp500Date # st.lastValidSp500Date
              THEN Append(st.pairs,
                          [portfolio |->
                               RSub(RDiv(day.value, st.lastPortfolioValue),
                                    Num(1)),
                           sp500 |->
                               RSub(RDiv(index.byDate[currSp500Date],
                                         st.lastValidSp500Value),
                                    Num(1))])
              ELSE st.pairs]
    ELSE st

\* one iteration of the date-by-date fallback loop on the point day
AlignedStep(st, index, day) ==
    AlignedBody(st, index, day, findNearestSp500Date(index, day.date))

RECURSIVE AlignedLoop(_, _, _, _, _)
\* the loop state after the points lo .. hi entered in the state st: the
\* second half of the points from the state after the first
AlignedLoop(portfolioValues, index, st, lo, hi) ==
    IF lo > hi THEN st
    ELSE IF lo = hi THEN AlignedStep(st, index, portfolioValues[lo])
    ELSE Only({AlignedLoop(portfolioValues, index, half,
                           (lo + hi) \div 2 + 1, hi) :
                  half \in {AlignedLoop(portfolioValues, index, st, lo,
                                        (lo + hi) \div 2)}})

\* lastValidSp500Date = null, lastValidSp500Value = null,
\* lastPortfolioValue = null and the two empty arrays
AlignedStart ==
    [lastValidSp500Date |-> NoDate, lastValidSp500Value |-> Null,
     lastPortfolioValue |-> Null, pairs |-> <<>>]

AlignedReturns(portfolioValues, index) ==
    AlignedLoop(portfolioValues, index, AlignedStart,
                1, Len(portfolioValues)).pairs

\* the sum of (xs[j] - meanX) * (ys[j] - meanY) over the first k indices
ProductsTo(xs, ys, meanX, meanY, k) ==
    RSum([j \in 1..k |-> RMul(RSub(xs[j], meanX), RSub(ys[j], meanY))])

\* numerator / denominator unless denominator === 0
Quotient(numerator, denominator) ==
    IF denominator = Zero THEN Zero ELSE Div(numerator, denominator)

\* the Pearson formula about the means meanX and meanY
Pearson(xs, ys, meanX, meanY) ==
    Quotient(ProductsTo(xs, ys, meanX, meanY, Len(xs)),
             Sqrt(RMul(ProductsTo(xs, xs, meanX, meanX, Len(xs)),
                       ProductsTo(ys, ys, meanY, meanY, Len(xs)))))

calculateCorrelation(portfolioReturns, benchmarkReturns) ==
    IF Len(portfolioReturns) # Len(benchmarkReturns) \/ Len(portfolioReturns) < 2
    THEN Zero
    ELSE Only({Pearson(portfolioReturns, benchmarkReturns, meanX, meanY) :
                  meanX \in {RDiv(RSum(portfolioReturns),
                                  Num(Len(portfolioReturns)))},
                  meanY \in {RDiv(RSum(benchmarkReturns),
                                  Num(Len(portfolioReturns)))}})

\* calculateCorrelation on the two columns of the pushed pairs
CorrelationOf(pairs) ==
    calculateCorrelation([k \in 1..Len(pairs) |-> pairs[k].portfolio],
                         [k \in 1..Len(pairs) |-> pairs[k].sp500])

\* variant: weeklyPortfolioReturns.length > 10
WeeklyEnoughStrict(weekly) == Len(weekly) > MinWeeklyPairs

\* weeklyPortfolioReturns.length >= 10
WeeklyEnough(weekly) == Len(weekly) >= MinWeeklyPairs

\* alignedPortfolioReturns.length >= 20
AlignedEnough(aligned) == Len(aligned) >= MinAlignedPairs

\* sp500Data && sp500Data.length > 1 && portfolioValues.length > 1
BenchmarkUsable(portfolioValues, benchmark) ==
    benchmark.given /\ Len(benchmark.rows) > 1 /\ Len(portfolioValues) > 1

\* the fallback: the date-by-date pairs decide
FallbackCorrelation(aligned) ==
    IF AlignedEnough(aligned) THEN CorrelationOf(aligned) ELSE Undefined

\* the stride pairs decide, else the fallback
CorrelationFrom(portfolioValues, index, weekly) ==
    IF WeeklyEnough(weekly) THEN CorrelationOf(weekly)
    ELSE FallbackCorrelation(AlignedReturns(portfolioValues, index))

CorrelationWith(portfolioValues, index) ==
    CorrelationFrom(portfolioValues, index,
                    WeeklyReturns(portfolioValues, index,
                                  1, LastStride(portfolioValues)))

Sp500Correlation(portfolioValues, benchmark) ==
    IF BenchmarkUsable(portfolioValues, benchmark)
    THEN CorrelationWith(portfolioValues, Sp500Index(benchmark.rows))
    ELSE Undefined

---------------------------------------------------------------------------

\* calculateMonthlyPerformance(portfolioValues) ?? undefined
MonthlyStatsOrUndefined(monthlyStats) ==
    IF monthlyStats = Null THEN Undefined ELSE monthlyStats

\* the returned object of the non-degenerate branch
MetricsObject(pv, investment, benchmark, finalBalance, cagr, dr, volatility) ==
    [initialInvestment |-> Num(investment),
     finalBalance |-> finalBalance,
     totalReturn |-> TotalReturn(finalBalance, investment),
     cagr |-> cagr,
     volatility |-> volatility,
     sharpeRatio |-> SharpeRatio(cagr, volatility),
     bestDay |-> MathMax(dr),
     worstDay |-> MathMin(dr),
     maxDrawdown |-> MaxDrawdown(pv),
     monthlyStats |-> MonthlyStatsOrUndefined(calculateMonthlyPerformance(pv)),
     sp500Correlation |-> Sp500Correlation(pv, benchmark)]

\* the non-degenerate branch from finalBalance and dailyReturns on
MetricsFrom(pv, investment, benchmark, finalBalance, dr) ==
    MetricsObject(pv, investment, benchmark, finalBalance,
                  Cagr(finalBalance, investment, Years(pv)),
                  dr, Volatility(dr))

\* the metrics of a series of at least one point
calculateMetrics(portfolioValues, investment, benchmark) ==
    IF IsDegenerate(portfolioValues) THEN DegenerateMetrics(investment)
    ELSE MetricsFrom(portfolioValues, investment, benchmark,
                     portfolioValues[Len(portfolioValues)].value,
                     DailyReturns(portfolioValues))

NoMetrics == [none |-> TRUE]

---------------------------------------------------------------------------
(* validateAssetsForDateRange.  A string array is a sequence; the empty  *)
(* string of earliestValidDate is NoDate.                                 *)

\* the tickers in the order in which the weights object lists them
TickerOrder == <<"BTC", "ETH", "SOL">>

\* Object.keys(weights)
ObjectKeys(w) == SelectSeq(TickerOrder, LAMBDA ticker : ticker \in DOMAIN w)

\* variant: price === undefined
IsInvalidPriceAbsentOnly(dayData, ticker) == ~HasKey(dayData, ticker)

\* !price || price <= 0
IsInvalidPrice(dayData, ticker) ==
    \/ ~HasKey(dayData, ticker)
    \/ dayData.prices[ticker] = 0
    \/ dayData.prices[ticker] <= 0

\* the tickers pushed to invalidAssets
InvalidAssets(firstDay, w) ==
    SelectSeq(ObjectKeys(w), LAMBDA ticker : IsInvalidPrice(firstDay, ticker))

\* the tickers pushed to validAssets
ValidAssets(firstDay, w) ==
    SelectSeq(ObjectKeys(w), LAMBDA ticker : ~IsInvalidPrice(firstDay, ticker))

\* variant: some(ticker => price && price > 0)
AllValidSome(day, w) ==
    \E k \in 1..Len(ObjectKeys(w)) :
        /\ HasKey(day, ObjectKeys(w)[k])
        /\ day.prices[ObjectKeys(w)[k]] > 0

\* Object.keys(weights).every(ticker => price && price > 0)
AllValid(day, w) ==
    \A k \in 1..Len(ObjectKeys(w)) :
        /\ HasKey(day, ObjectKeys(w)[k])
        /\ day.prices[ObjectKeys(w)[k]] > 0

RECURSIVE EarliestValidFrom(_, _, _)
\* the loop over the records from the k-th on: the date of the first
\* record that is allValid (break), '' when the loop runs out
EarliestValidFrom(hd, w, k) ==
    IF k > Len(hd) THEN NoDate
    ELSE IF AllValid(hd[k], w) THEN hd[k].date
    ELSE EarliestValidFrom(hd, w, k + 1)

validateAssetsForDateRange(given, hd, w) ==
    IF IsEmptyInput(given, hd)
    THEN [valid |-> FALSE,
          invalidAssets |-> ObjectKeys(w),
          validAssets |-> <<>>,
          earliestValidDate |-> NoDate]
    ELSE [valid |-> Len(InvalidAssets(hd[1], w)) = 0,
          invalidAssets |-> InvalidAssets(hd[1], w),
          validAssets |-> ValidAssets(hd[1], w),
          earliestValidDate |-> EarliestValidFrom(hd, w, 1)]

NoValidation == [none |-> TRUE]

---------------------------------------------------------------------------
(* Inputs *)

Calendar == {Date(2023, 12, 31), Date(2024, 1, 1), Date(2024, 1, 2),
             Date(2024, 4, 1)}

\* chronologically ordered records, one per date, no duplicate dates
PriceSeries(quotes) ==
    UNION {
        LET dates == SortDates(S)
        IN  {[k \in 1..Len(dates) |-> [date |-> dates[k], prices |-> q[k]]] :
                q \in [1..Len(dates) -> quotes]}
        : S \in {T \in SUBSET Calendar : Cardinality(T) <= MaxDays}}

SinglePrices == {0, 100, 110, 121}
SingleQuotes == {<<>>} \cup {[BTC |-> b] : b \in SinglePrices}
SingleWeights == {[BTC |-> 100]}

BtcPrices == {1, 2}
SolPrices == {0, 2}
PairQuotes == {[BTC |-> b] : b \in BtcPrices}
              \cup {[BTC |-> b, SOL |-> s] : b \in BtcPrices, s \in SolPrices}
PairWeights == {[BTC |-> 60, SOL |-> 40], [BTC |-> 50, SOL |-> 30]}

SingleInvestments == {0, 1000}
PairInvestments == {1000}
Frequencies == {"none", "quarterly", "annually"}
Zones == {"utcOrEast", "west"}

Benchmarks ==
    {NoBenchmark,
     [given |-> TRUE, rows |-> <<>>],
     [given |-> TRUE,
      rows |-> <<[date |-> Date(2023, 12, 31), value |-> Num(4000)],
                 [date |-> Date(2024, 1, 2), value |-> Num(4100)]>>]}

---------------------------------------------------------------------------
(* Inputs of a direct call of calculateMetrics: a value series and a      *)
(* benchmark.  The short series take their dates from the Calendar (or    *)
(* one date twice); the long series take consecutive days.                *)

MaxExtra == 6

MetricValues == {0, 50, 100}
MetricInvestments == {0, 100}

\* the date sequences of the short series
ShortDates ==
    {SortDates(S) : S \in {T \in SUBSET Calendar : Cardinality(T) <= MaxDays}}
    \cup {<<d, d>> : d \in Calendar}

ShortSeries ==
    UNION {{[k \in 1..Len(dates) |->
                [date |-> dates[k], value |-> Num(v[k])]] :
               v \in [1..Len(dates) -> MetricValues]} : dates \in ShortDates}

\* the k-th day of the long series, which start on 2024-01-01 and end
\* before March
LongDay(k) ==
    IF k <= DaysInMonth(2024, 1) THEN Date(2024, 1, k)
    ELSE Date(2024, 2, k - DaysInMonth(2024, 1))

\* without the stride pass: one point short of the fallback, and enough
\* for it; with it: one point short of ten strides, and enough for them
LongLengths ==
    {MinAlignedPairs, MinAlignedPairs + 1}
    \cup {stepSize * MinWeeklyPairs + e : e \in 0..MaxExtra}

Shapes == {"flat", "saw", "wave", "dip"}

\* the value of the k-th point (k >= 1) of a long series
ShapeValue(shape, k) ==
    IF shape = "flat" THEN 100
    ELSE IF shape = "saw" THEN 100 + 100 * (k % 2)
    ELSE IF shape = "wave" THEN <<200, 400, 200, 100>>[(k % 4) + 1]
    ELSE IF k = stepSize + 1 THEN 0 ELSE 100 + 100 * (k % 2)

LongSeries ==
    {[k \in 1..n |-> [date |-> LongDay(k),
                      value |-> Num(ShapeValue(shape, k))]] :
        n \in LongLengths, shape \in Shapes}

\* the quote of the benchmark on the k-th day: none (0) on two days of
\* every seven
QuoteValue(k) ==
    IF k % 7 \in {0, 6} THEN 0 ELSE <<1000, 2000, 1000>>[(k % 3) + 1]

\* the benchmarks of a call on the series pv: none, empty, one row, the
\* series itself, daily quotes with gaps (rows with the value 0), such
\* quotes that start on the third day, and quotes on every tenth day only
BenchmarksFor(pv) ==
    {NoBenchmark,
     [given |-> TRUE, rows |-> <<>>],
     [given |-> TRUE, rows |-> IF Len(pv) = 0 THEN <<>> ELSE <<pv[1]>>],
     [given |-> TRUE, rows |-> pv],
     [given |-> TRUE,
      rows |-> [k \in 1..Len(pv) |->
                   [date |-> pv[k].date, value |-> Num(QuoteValue(k))]]],
     [given |-> TRUE,
      rows |-> [k \in 1..Len(pv) |->
                   [date |-> pv[k].date,
                    value |-> Num(IF k <= 2 THEN 0 ELSE QuoteValue(k + 1))]]],
     [given |-> TRUE,
      rows |-> SelectSeq([k \in 1..Len(pv) |->
                             [date |-> pv[k].date,
                              value |-> Num(IF k % 10 = 1
                                            THEN 1000 + 1000 * ((k \div 10) % 2)
                                            ELSE 0)]],
                         IsTradingRow)]}

---------------------------------------------------------------------------
(* The state machine: a call of calculatePortfolioHistory on the drawn    *)
(* arguments, then calculateMetrics on its result.                        *)

\* the dashboard is not mounted, nothing is stored and the route has not
\* been called
NoDashboard ==
    /\ storage = <<>>
    /\ now = 0
    /\ selectedAssets = <<>>
    /\ selectedRef = <<"own">>
    /\ startDate = NoDate
    /\ endDate = NoDate
    /\ marketData = <<>>
    /\ inFlight = {}
    /\ events = 0
    /\ request = <<>>
    /\ allData = <<>>
    /\ filledData = <<>>

InitCall ==
    /\ NoDashboard
    /\ rebalanceFrequency \in Frequencies
    /\ tz \in Zones
    /\ pc = "start"
    /\ i = 0
    /\ units = <<>>
    /\ lastRebalanceDate = NoDate
    /\ results = <<>>
    /\ log = <<>>
    /\ sp500Data = NoBenchmark
    /\ metrics = NoMetrics
    /\ validation = NoValidation

InitSingle ==
    /\ weights \in SingleWeights
    /\ initialInvestment \in SingleInvestments
    /\ \/ dataGiven = FALSE /\ historicalData = <<>>
       \/ dataGiven = TRUE /\ historicalData \in PriceSeries(SingleQuotes)
    /\ InitCall

InitPair ==
    /\ weights \in PairWeights
    /\ initialInvestment \in PairInvestments
    /\ dataGiven = TRUE
    /\ historicalData \in PriceSeries(PairQuotes)
    /\ InitCall

Init == InitSingle \/ InitPair

\* variant: one results array, declared outside the function, that every
\* call pushes to
ResultsDeclaredOnce(st) == results \o st.results

\* const results = []: every call has its own array
ResultsDeclared(st) == st.results

\* the call up to the loop: the guard, the declarations and the units of
\* day 0; historicalData[0].date of a missing or empty array throws
HistoryCall ==
    /\ pc = "start"
    /\ IF IsEmptyInput(dataGiven, historicalData)
       THEN /\ pc' = "done"
            /\ results' = <<>>
            /\ UNCHANGED <<i, units, lastRebalanceDate, log>>
       ELSE IF ~dataGiven \/ Len(historicalData) = 0
       THEN /\ pc' = "history threw"
            /\ UNCHANGED <<i, units, lastRebalanceDate, results, log>>
       ELSE LET st == LoopEntry(historicalData, weights, initialInvestment)
            IN  /\ units' = st.units
                /\ lastRebalanceDate' = st.lastRebalanceDate
                /\ results' = ResultsDeclared(st)
                /\ log' = st.log
                /\ i' = 0
                /\ pc' = "loop"
    /\ UNCHANGED <<historicalData, dataGiven, weights, initialInvestment,
                   rebalanceFrequency, tz, sp500Data, metrics, validation>>
    /\ UNCHANGED dashboard

\* one iteration of the for loop
HistoryStep ==
    /\ pc = "loop"
    /\ LoopContinues(i, historicalData)
    /\ LET st == LoopBody([units |-> units,
                           lastRebalanceDate |-> lastRebalanceDate,
                           results |-> results, log |-> log],
                          historicalData, weights, initialInvestment,
                          rebalanceFrequency, tz, i)
       IN  /\ units' = st.units
           /\ lastRebalanceDate' = st.lastRebalanceDate
           /\ results' = st.results
           /\ log' = st.log
    /\ i' = i + 1
    /\ UNCHANGED <<historicalData, dataGiven, weights, initialInvestment,
                   rebalanceFrequency, tz, pc, sp500Data, metrics, validation>>
    /\ UNCHANGED dashboard

\* the loop ends: return results
HistoryReturn ==
    /\ pc = "loop"
    /\ ~LoopContinues(i, historicalData)
    /\ pc' = "done"
    /\ UNCHANGED <<historicalData, dataGiven, weights, initialInvestment,
                   rebalanceFrequency, tz, i, units, lastRebalanceDate,
                   results, log, sp500Data, metrics, validation>>
    /\ UNCHANGED dashboard

\* calculateMetrics(chartData, initialInvestment, sp500Data);
\* portfolioValues[portfolioValues.length - 1].value of an empty array throws
CalcMetrics ==
    /\ pc = "done"
    /\ \E b \in Benchmarks :
          /\ sp500Data' = b
          /\ IF ~IsDegenerate(results) /\ Len(results) = 0
             THEN pc' = "metrics threw" /\ metrics' = metrics
             ELSE /\ metrics' = calculateMetrics(results, initialInvestment, b)
                  /\ pc' = "metrics"
    /\ UNCHANGED <<historicalData, dataGiven, weights, initialInvestment,
                   rebalanceFrequency, tz, i, units, lastRebalanceDate,
                   results, log, validation>>
    /\ UNCHANGED dashboard

Next ==
    \/ HistoryCall
    \/ HistoryStep
    \/ HistoryReturn
    \/ CalcMetrics

Spec == Init /\ [][Next]_vars

---------------------------------------------------------------------------
(* A direct call of the exported calculateMetrics on a drawn value series *)
(* (held by results), investment and benchmark.                           *)

InitMetrics ==
    /\ NoDashboard
    /\ \/ results \in ShortSeries /\ initialInvestment \in MetricInvestments
       \/ results \in LongSeries /\ initialInvestment = 100
    /\ sp500Data \in BenchmarksFor(results)
    /\ pc = "call"
    /\ historicalData = <<>>
    /\ dataGiven = FALSE
    /\ weights = <<>>
    /\ rebalanceFrequency = "none"
    /\ tz = "utcOrEast"
    /\ i = 0
    /\ units = <<>>
    /\ lastRebalanceDate = NoDate
    /\ log = <<>>
    /\ metrics = NoMetrics
    /\ validation = NoValidation

\* calculateMetrics(portfolioValues, initialInvestment, sp500Data)
MetricsCall ==
    /\ pc = "call"
    /\ IF ~IsDegenerate(results) /\ Len(results) = 0
       THEN pc' = "metrics threw" /\ metrics' = metrics
       ELSE /\ metrics' = calculateMetrics(results, initialInvestment, sp500Data)
            /\ pc' = "metrics"
    /\ UNCHANGED <<historicalData, dataGiven, weights, initialInvestment,
                   rebalanceFrequency, tz, i, units, lastRebalanceDate,
                   results, log, sp500Data, validation>>
    /\ UNCHANGED dashboard

NextMetrics == MetricsCall

SpecMetrics == InitMetrics /\ [][NextMetrics]_vars

---------------------------------------------------------------------------
(* Repeated calls.  PortfolioBuilder calls validateAssetsForDateRange     *)
(* when the price data arrive and calculatePortfolioHistory and           *)
(* calculateMetrics whenever it renders; here the three functions are     *)
(* called again and again, in any order, on the arguments drawn once.     *)
(* What a finished call left in the variables stays there.                *)

MaxCallDays == 2

InitCalls == Init /\ Len(historicalData) <= MaxCallDays

\* validateAssetsForDateRange(data, weights), between two other calls
ValidateCall ==
    /\ pc \in {"start", "done", "metrics"}
    /\ validation' =
          validateAssetsForDateRange(dataGiven, historicalData, weights)
    /\ UNCHANGED <<historicalData, dataGiven, weights, initialInvestment,
                   rebalanceFrequency, tz, pc, i, units, lastRebalanceDate,
                   results, log, sp500Data, metrics>>
    /\ UNCHANGED dashboard

\* the next render: calculatePortfolioHistory is about to be called again
CallAgain ==
    /\ pc \in {"done", "metrics"}
    /\ pc' = "start"
    /\ UNCHANGED <<historicalData, dataGiven, weights, initialInvestment,
                   rebalanceFrequency, tz, i, units, lastRebalanceDate,
                   results, log, sp500Data, metrics, validation>>
    /\ UNCHANGED dashboard

NextCalls ==
    \/ HistoryCall
    \/ HistoryStep
    \/ HistoryReturn
    \/ CalcMetrics
    \/ ValidateCall
    \/ CallAgain

SpecCalls == InitCalls /\ [][NextCalls]_vars

---------------------------------------------------------------------------
(* A direct call of the exported validateAssetsForDateRange on drawn      *)
(* price data and a drawn weight map.  The weight map may be empty:       *)
(* PortfolioBuilder replaces its weights by those of the valid assets,    *)
(* which may be none.                                                     *)

ValidationWeights == SingleWeights \cup PairWeights \cup {<<>>}

InitValidation ==
    /\ NoDashboard
    /\ weights \in ValidationWeights
    /\ \/ dataGiven = FALSE /\ historicalData = <<>>
       \/ dataGiven = TRUE /\ historicalData \in PriceSeries(PairQuotes)
    /\ initialInvestment = 1000
    /\ rebalanceFrequency = "none"
    /\ tz = "utcOrEast"
    /\ pc = "start"
    /\ i = 0
    /\ units = <<>>
    /\ lastRebalanceDate = NoDate
    /\ results = <<>>
    /\ log = <<>>
    /\ sp500Data = NoBenchmark
    /\ metrics = NoMetrics
    /\ validation = NoValidation

NextValidation == ValidateCall

SpecValidation == InitValidation /\ [][NextValidation]_vars

---------------------------------------------------------------------------
(* lib/portfolio-storage.ts.  localStorage holds the JSON text of          *)
(* { configurations: [...] }; the model holds the configurations, which   *)
(* are what JSON.parse returns for the text JSON.stringify wrote: the     *)
(* stored objects have strings, numbers, arrays and objects for values    *)
(* and no undefined ones.  Unset storage reads as no configurations.      *)

MAX_CONFIGS == 10

\* `portfolio-${Date.now()}`
ConfigId(t) == <<"portfolio-", t>>

\* new Date().toISOString(): the clock reading as a string, one string per
\* millisecond
ToISOString(t) == <<"iso", t>>

\* { ...config, id, createdAt, lastModified }
NewConfig(config, t) ==
    [id |-> ConfigId(t),
     createdAt |-> ToISOString(t),
     lastModified |-> ToISOString(t)] @@ config

\* variant: length > MAX_CONFIGS
EnforceLimitLate(configurations) ==
    IF Len(configurations) > MAX_CONFIGS
    THEN Tail(configurations)
    ELSE configurations

\* if (length >= MAX_CONFIGS) configurations.shift()
EnforceLimit(configurations) ==
    IF Len(configurations) >= MAX_CONFIGS
    THEN Tail(configurations)
    ELSE configurations

\* what savePortfolioConfig(config) stores at clock reading t
savePortfolioConfig(stored, config, t) ==
    Append(EnforceLimit(stored), NewConfig(config, t))

\* what deletePortfolioConfig(id) stores
deletePortfolioConfig(stored, id) == SelectSeq(stored, LAMBDA c : c.id # id)

\* configurations.findIndex(c => c.id === id), 1-based; 0 for -1
FindIndex(stored, id) ==
    IF \E k \in 1..Len(stored) : stored[k].id = id
    THEN CHOOSE k \in 1..Len(stored) :
            /\ stored[k].id = id
            /\ \A j \in 1..(k - 1) : stored[j].id # id
    ELSE 0

\* { ...configurations[index], ...updates, lastModified }
Updated(config, updates, t) ==
    [lastModified |-> ToISOString(t)] @@ updates @@ config

\* what updatePortfolioConfig(id, updates) stores at clock reading t
updatePortfolioConfig(stored, id, updates, t) ==
    IF FindIndex(stored, id) # 0
    THEN [stored EXCEPT ![FindIndex(stored, id)] =
              Updated(stored[FindIndex(stored, id)], updates, t)]
    ELSE stored

---------------------------------------------------------------------------
(* Calls of the storage functions, in any order, from empty storage, as   *)
(* the clock advances.  Several calls may read the same millisecond.      *)

MaxClock == 2
MaxCalls == 12

\* the configurations passed to savePortfolioConfig
ConfigsToSave ==
    {[name |-> "mine",
      selectedAssets |-> <<"BTC">>,
      weights |-> [BTC |-> 100],
      initialInvestment |-> 10000]}

\* the updates passed to updatePortfolioConfig
Updates == {[name |-> "renamed"]}

\* the ids passed to deletePortfolioConfig and updatePortfolioConfig: those
\* of the clock readings so far (stored or not)
IdsSoFar == {ConfigId(t) : t \in 0..now}

InitStorage ==
    /\ NoDashboard
    /\ pc = "storage"
    /\ historicalData = <<>>
    /\ dataGiven = FALSE
    /\ weights = <<>>
    /\ initialInvestment = 0
    /\ rebalanceFrequency = "none"
    /\ tz = "utcOrEast"
    /\ i = 0
    /\ units = <<>>
    /\ lastRebalanceDate = NoDate
    /\ results = <<>>
    /\ log = <<>>
    /\ sp500Data = NoBenchmark
    /\ metrics = NoMetrics
    /\ validation = NoValidation

\* what a call of a storage function leaves alone
StorageFrame ==
    UNCHANGED <<historicalData, dataGiven, weights, initialInvestment,
                rebalanceFrequency, tz, pc, i, units, lastRebalanceDate,
                results, log, sp500Data, metrics, validation, now,
                selectedAssets, selectedRef, startDate, endDate, marketData,
                inFlight, request, allData, filledData>>

\* savePortfolioConfig(config)
SaveConfig ==
    /\ pc = "storage"
    /\ events < MaxCalls
    /\ \E config \in ConfigsToSave :
          storage' = savePortfolioConfig(storage, config, now)
    /\ events' = events + 1
    /\ StorageFrame

\* deletePortfolioConfig(id)
DeleteConfig ==
    /\ pc = "storage"
    /\ events < MaxCalls
    /\ \E id \in IdsSoFar : storage' = deletePortfolioConfig(storage, id)
    /\ events' = events + 1
    /\ StorageFrame

\* updatePortfolioConfig(id, updates)
UpdateConfig ==
    /\ pc = "storage"
    /\ events < MaxCalls
    /\ \E id \in IdsSoFar, updates \in Updates :
          storage' = updatePortfolioConfig(storage, id, updates, now)
    /\ events' = events + 1
    /\ StorageFrame

\* the clock reaches the next millisecond
Tick ==
    /\ now < MaxClock
    /\ now' = now + 1
    /\ UNCHANGED <<historicalData, dataGiven, weights, initialInvestment,
                   rebalanceFrequency, tz, pc, i, units, lastRebalanceDate,
                   results, log, sp500Data, metrics, validation, storage,
                   selectedAssets, selectedRef, startDate, endDate,
                   marketData, inFlight, events, request, allData,
                   filledData>>

NextStorage ==
    \/ SaveConfig
    \/ DeleteConfig
    \/ UpdateConfig
    \/ Tick

SpecStorage == InitStorage /\ [][NextStorage]_vars

---------------------------------------------------------------------------
(* app/api/market-data/route.ts.  A fetched row has a date, which is an   *)
(* instant <<UTC day, UTC hour>>, and may have the numbers adjClose and   *)
(* close.  A day record of the response is a DailyData: its date and the  *)
(* prices keyed by symbol; while the route builds it, a symbol without a  *)
(* key holds null or undefined.  Tickers are written without '-USD'.      *)

GSPC == "^GSPC"
MaxAssets == 20

\* /^[A-Z0-9]+-USD$/.test(asset), on the names the model draws
IsAssetName(asset) == asset \in {"BTC", "ETH", "SOL"}

\* requestedAssets.filter(...)
ASSETS(requestedAssets) ==
    SelectSeq(requestedAssets,
              LAMBDA asset : IsAssetName(asset)
                             /\ Len(requestedAssets) <= MaxAssets)

\* [...ASSETS, '^GSPC']
AssetsToFetch(requestedAssets) == Append(ASSETS(requestedAssets), GSPC)

\* date.toISOString().split('T')[0]: the UTC day of the instant
DateStr(instant) == instant[1]

\* the dates added to uniqueDates
UniqueDates(symbols, data) ==
    UNION {{DateStr(data[s][k].date) : k \in 1..Len(data[s])} : s \in symbols}

\* symbolData.find(d => dStr === dateStr) as a 1-based index; 0 when
\* there is no such row
FindEntry(symbolData, dateStr) ==
    IF \E k \in 1..Len(symbolData) : DateStr(symbolData[k].date) = dateStr
    THEN CHOOSE k \in 1..Len(symbolData) :
            /\ DateStr(symbolData[k].date) = dateStr
            /\ \A j \in 1..(k - 1) : DateStr(symbolData[j].date) # dateStr
    ELSE 0

\* entry.adjClose || entry.close is a number
HasPrice(entry) ==
    \/ "adjClose" \in DOMAIN entry /\ entry.adjClose # 0
    \/ "close" \in DOMAIN entry

\* entry.adjClose || entry.close
PriceOf(entry) ==
    IF "adjClose" \in DOMAIN entry /\ entry.adjClose # 0
    THEN entry.adjClose
    ELSE entry.close

\* the symbols to which the day record of dateStr gives a number
Observed(symbols, data, dateStr) ==
    {s \in symbols : /\ FindEntry(data[s], dateStr) # 0
                     /\ HasPrice(data[s][FindEntry(data[s], dateStr)])}

\* the day record of dateStr
DayRecord(symbols, data, dateStr) ==
    [date |-> dateStr,
     prices |-> [s \in Observed(symbols, data, dateStr) |->
                    PriceOf(data[s][FindEntry(data[s], dateStr)])]]

\* sortedDates.map(...)
AlignedData(symbols, data) ==
    [k \in 1..Cardinality(UniqueDates(symbols, data)) |->
        DayRecord(symbols, data, SortDates(UniqueDates(symbols, data))[k])]

\* variant: a missing value is 0 whether or not the symbol was seen before
NewDayZeroFilled(symbols, day, lastKnownValues) ==
    [date |-> day.date,
     prices |-> [s \in symbols |->
                    IF s \in DOMAIN day.prices THEN day.prices[s] ELSE 0]]

\* newDay after the forEach over the symbols
NewDay(symbols, day, lastKnownValues) ==
    [date |-> day.date,
     prices |-> [s \in symbols |->
                    IF s \in DOMAIN day.prices THEN day.prices[s]
                    ELSE IF s \in DOMAIN lastKnownValues
                    THEN lastKnownValues[s]
                    ELSE 0]]

\* lastKnownValues after the forEach over the symbols
LastKnown(day, lastKnownValues) ==
    [s \in DOMAIN day.prices \cup DOMAIN lastKnownValues |->
        IF s \in DOMAIN day.prices THEN day.prices[s]
        ELSE lastKnownValues[s]]

RECURSIVE FillFrom(_, _, _, _)
\* the records pushed to filledData from the k-th day on
FillFrom(symbols, alignedData, lastKnownValues, k) ==
    IF k > Len(alignedData) THEN <<>>
    ELSE <<NewDay(symbols, alignedData[k], lastKnownValues)>>
         \o FillFrom(symbols, alignedData,
                     LastKnown(alignedData[k], lastKnownValues), k + 1)

\* the response of GET when the fetches of the symbols gave data
FilledData(symbols, data) ==
    FillFrom(symbols, AlignedData(symbols, data), <<>>, 1)

\* the elements of assetsToFetch
Symbols(requestedAssets) ==
    {AssetsToFetch(requestedAssets)[k] :
        k \in 1..Len(AssetsToFetch(requestedAssets))}

GET(requestedAssets, data) == FilledData(Symbols(requestedAssets), data)

---------------------------------------------------------------------------
(* A request to the route: the assets of the query and, per symbol        *)
(* fetched, the rows that yahooFinance.historical returned ([] when the   *)
(* fetch failed).  The rows of a symbol are daily rows, one per day.      *)

RouteDays == {Date(2024, 1, 1), Date(2024, 1, 2), Date(2024, 4, 1)}

\* the hour of the daily rows: midnight for a crypto pair, the opening of
\* the exchange for the index
HourOf(symbol) == IF symbol = GSPC THEN 14 ELSE 0

\* what a row says besides its date
Quotes ==
    {[adjClose |-> 5, close |-> 6],
     [adjClose |-> 0, close |-> 7],
     [adjClose |-> 0, close |-> 0],
     <<>>}

\* the daily rows a fetch may return for the symbol, in ascending order
RowsOf(symbol) ==
    UNION {
        LET dates == SortDates(S)
        IN  {[k \in 1..Len(dates) |->
                 [date |-> <<dates[k], HourOf(symbol)>>] @@ q[k]] :
                q \in [1..Len(dates) -> Quotes]}
        : S \in SUBSET RouteDays}

Requests == {<<"BTC">>, <<"btc", "BTC">>}

InitRoute ==
    /\ request \in {[assets |-> a] : a \in Requests}
    /\ \E btc \in RowsOf("BTC"), gspc \in RowsOf(GSPC) :
          allData = [s \in {"BTC", GSPC} |-> IF s = GSPC THEN gspc ELSE btc]
    /\ filledData = <<>>
    /\ storage = <<>>
    /\ now = 0
    /\ selectedAssets = <<>>
    /\ selectedRef = <<"own">>
    /\ startDate = NoDate
    /\ endDate = NoDate
    /\ marketData = <<>>
    /\ inFlight = {}
    /\ events = 0
    /\ pc = "route"
    /\ historicalData = <<>>
    /\ dataGiven = FALSE
    /\ weights = <<>>
    /\ initialInvestment = 0
    /\ rebalanceFrequency = "none"
    /\ tz = "utcOrEast"
    /\ i = 0
    /\ units = <<>>
    /\ lastRebalanceDate = NoDate
    /\ results = <<>>
    /\ log = <<>>
    /\ sp500Data = NoBenchmark
    /\ metrics = NoMetrics
    /\ validation = NoValidation

\* GET(request): NextResponse.json(filledData)
RouteGet ==
    /\ pc = "route"
    /\ filledData' = GET(request.assets, allData)
    /\ pc' = "responded"
    /\ UNCHANGED <<historicalData, dataGiven, weights, initialInvestment,
                   rebalanceFrequency, tz, i, units, lastRebalanceDate,
                   results, log, sp500Data, metrics, validation, storage,
                   now, selectedAssets, selectedRef, startDate, endDate,
                   marketData, inFlight, events, request, allData>>

NextRoute == RouteGet

SpecRoute == InitRoute /\ [][NextRoute]_vars

---------------------------------------------------------------------------
(* PortfolioBuilder with its PortfolioManager.  The state of the          *)
(* component is selectedAssets, weights, initialInvestment, startDate,    *)
(* endDate, rebalanceFrequency, marketData and assetValidation            *)
(* (validation).  A user event runs its handler, React renders the new    *)
(* state once, and the effect on [selectedAssets, startDate, endDate]     *)
(* runs when one of the three changed: the strings by value, the array    *)
(* by identity (selectedRef).  fetchData then awaits its response, which  *)
(* arrives at any later moment.  The market is fixed: three trading days, *)
(* Solana quoted from the second one.  The search offers three of the     *)
(* assets of AVAILABLE_CRYPTO_ASSETS.                                     *)

Own == <<"own">>
PresetRef(presetId) == <<"preset", presetId>>
SavedRef(k) == <<"saved", k, "entry">>

PORTFOLIO_PRESETS ==
    [presetId \in {"btc-only", "btc-eth", "btc-eth-sol"} |->
        IF presetId = "btc-only"
        THEN [startDate |-> Date(2021, 1, 1),
              selectedAssets |-> <<"BTC">>,
              weights |-> [BTC |-> 100]]
        ELSE IF presetId = "btc-eth"
        THEN [startDate |-> Date(2021, 1, 1),
              selectedAssets |-> <<"BTC", "ETH">>,
              weights |-> [BTC |-> 70, ETH |-> 30]]
        ELSE [startDate |-> Date(2021, 1, 1),
              selectedAssets |-> <<"BTC", "ETH", "SOL">>,
              weights |-> [BTC |-> 60, ETH |-> 30, SOL |-> 10]]]

AVAILABLE_CRYPTO_ASSETS == <<"BTC", "ETH", "SOL">>

\* new Date().toISOString().split('T')[0] during the session
Today == Date(2024, 1, 1)

\* new Date('2020-01-01') of validateDates
MinDate == Date(2020, 1, 1)

\* validateDates(start, end): the error message, "" when there is none
validateDates(start, end) ==
    IF DateKey(start) < DateKey(MinDate)
    THEN "Start date cannot be before 2020-01-01"
    ELSE IF DateKey(end) > DateKey(Today)
    THEN "End date cannot be in the future"
    ELSE IF DateKey(start) >= DateKey(end)
    THEN "Start date must be before end date"
    ELSE IF DayNumber(end) - DayNumber(start) < 30
    THEN "Date range must be at least 30 days"
    ELSE ""

\* the days on which the market traded
MarketDays == {Date(2020, 1, 1), Date(2021, 1, 1), Date(2022, 1, 1)}

\* the first day on which the symbol is quoted
ListedSince(symbol) ==
    IF symbol = "SOL" THEN Date(2021, 1, 1) ELSE Date(2020, 1, 1)

\* the price of the symbol, the same on every day
QuoteOf(symbol) ==
    IF symbol = "BTC" THEN 30
    ELSE IF symbol = "ETH" THEN 20
    ELSE IF symbol = "SOL" THEN 10
    ELSE 40

\* the daily rows the symbol has had so far, in ascending order
Listing(symbol) ==
    [k \in 1..Cardinality(MarketDays) |->
        [date |-> <<SortDates(MarketDays)[k], HourOf(symbol)>>,
         adjClose |-> QuoteOf(symbol),
         close |-> QuoteOf(symbol)]]

\* yahooFinance.historical(symbol, {period1, period2, interval: '1d'})
Historical(symbol, period1, period2) ==
    SelectSeq(Listing(symbol),
              LAMBDA row :
                  /\ DateKey(ListedSince(symbol)) <= DateKey(DateStr(row.date))
                  /\ DateKey(period1) <= DateKey(DateStr(row.date))
                  /\ DateKey(DateStr(row.date)) <= DateKey(period2))

\* allData after Promise.all: the empty object with allData[symbol] set
\* to the rows of every symbol fetched
AllData(assets, start, end) ==
    [s \in Symbols(assets) |-> Historical(s, start, end)] @@ <<>>

\* res.json() of /api/market-data?startDate=..&endDate=..&assets=..
Response(assets, start, end) == GET(assets, AllData(assets, start, end))

\* the elements of selectedAssets
Selected(assets) == {assets[k] : k \in 1..Len(assets)}

\* prev.filter(t => t !== ticker)
WithoutAsset(assets, ticker) == SelectSeq(assets, LAMBDA t : t # ticker)

\* { ...prev, [ticker]: newValue }
WithWeight(w, ticker, newValue) ==
    [t \in DOMAIN w \cup {ticker} |-> IF t = ticker THEN newValue ELSE w[t]]

\* delete newWeights[ticker]
WithoutWeight(w, ticker) == [t \in DOMAIN w \ {ticker} |-> w[t]]

\* the weights of validation.validAssets that are truthy
FilteredWeights(v, w) ==
    [t \in {a \in Selected(v.validAssets) : w[a] # 0} |-> w[t]]

RECURSIVE SumValues(_, _)
\* keys.reduce((a, k) => a + w[k], 0)
SumValues(w, keys) ==
    IF keys = <<>> THEN 0 ELSE w[Head(keys)] + SumValues(w, Tail(keys))

\* Object.values(currentConfig.weights).reduce((a, b) => a + b, 0)
TotalWeight(w) == SumValues(w, ObjectKeys(w))

\* Math.abs(totalWeight - 100) > 0.1, on whole numbers
WeightsOff(w) == TotalWeight(w) # 100

\* the currentConfig prop of PortfolioManager, without the constant id and
\* name and the time stamps
CurrentConfig ==
    [selectedAssets |-> selectedAssets,
     weights |-> weights,
     initialInvestment |-> initialInvestment,
     startDate |-> startDate,
     endDate |-> endDate,
     rebalanceFrequency |-> rebalanceFrequency]

\* the object handleSave passes to savePortfolioConfig
ConfigToSave(name) ==
    [name |-> name,
     selectedAssets |-> selectedAssets,
     weights |-> weights,
     initialInvestment |-> initialInvestment]

\* config.startDate when it is truthy, else the state as it is
Restored(config, field, current) ==
    IF field \in DOMAIN config /\ config[field] # NoDate
    THEN config[field]
    ELSE current

---------------------------------------------------------------------------
(* The session: the dashboard is mounted with empty storage, the mount    *)
(* started the first fetch, and the user then acts MaxEvents times, one   *)
(* event per millisecond at most.                                         *)

MaxEvents == 3

\* the values the user gives to a weight, to the investment and to the
\* date inputs, and the names typed for a save
WeightValues == {0, 50}
Investments == {5000}
StartDates == {Date(2020, 1, 1), Date(2021, 1, 1)}
EndDates == {Date(2021, 6, 1), Today}
SaveNames == {"", "mine"}

\* the fetchData call of the render with the given state
FetchOf(no, assets, start, end, w) ==
    [no |-> no, assets |-> assets, startDate |-> start, endDate |-> end,
     weights |-> w]

InitBuilder ==
    /\ pc = "dashboard"
    /\ marketData = <<>>
    /\ initialInvestment = 10000
    /\ startDate = Date(2020, 1, 1)
    /\ endDate = Today
    /\ validation = NoValidation
    /\ selectedAssets = <<"BTC", "ETH", "SOL">>
    /\ selectedRef = Own
    /\ weights = [BTC |-> 40, ETH |-> 35, SOL |-> 25]
    /\ rebalanceFrequency = "none"
    /\ storage = <<>>
    /\ now = 0
    /\ events = 0
    /\ inFlight = {FetchOf(0, <<"BTC", "ETH", "SOL">>, Date(2020, 1, 1),
                           Today, [BTC |-> 40, ETH |-> 35, SOL |-> 25])}
    /\ log = <<>>
    /\ request = <<>>
    /\ allData = <<>>
    /\ filledData = <<>>
    /\ historicalData = <<>>
    /\ dataGiven = FALSE
    /\ tz = "utcOrEast"
    /\ i = 0
    /\ units = <<>>
    /\ lastRebalanceDate = NoDate
    /\ results = <<>>
    /\ sp500Data = NoBenchmark
    /\ metrics = NoMetrics

\* a user event: the next one comes a millisecond later at the earliest
UserEvent ==
    /\ pc = "dashboard"
    /\ events < MaxEvents
    /\ events' = events + 1
    /\ now' = now + 1
    /\ UNCHANGED <<historicalData, dataGiven, tz, pc, i, units,
                   lastRebalanceDate, results, sp500Data, metrics, request,
                   allData, filledData>>

\* the effect after the render of the new state: fetchData starts when a
\* dependency changed, and awaits its response unless validateDates
\* reports an error
Effect(newArray) ==
    inFlight' =
        IF /\ newArray \/ startDate' # startDate \/ endDate' # endDate
           /\ validateDates(startDate', endDate') = ""
        THEN inFlight \cup {FetchOf(events', selectedAssets', startDate',
                                    endDate', weights')}
        ELSE inFlight

\* handleWeightChange(ticker, newValue), from the AssetAllocator
HandleWeightChange ==
    /\ UserEvent
    /\ \E ticker \in Selected(selectedAssets), newValue \in WeightValues :
          weights' = WithWeight(weights, ticker, newValue)
    /\ UNCHANGED <<selectedAssets, selectedRef, startDate, endDate,
                   initialInvestment, rebalanceFrequency, marketData,
                   validation, storage, log>>
    /\ Effect(FALSE)

\* handleAddAsset(ticker), from the assets the search lists
HandleAddAsset ==
    /\ UserEvent
    /\ \E ticker \in Selected(AVAILABLE_CRYPTO_ASSETS)
                        \ Selected(selectedAssets) :
          /\ selectedAssets' = Append(selectedAssets, ticker)
          /\ weights' = WithWeight(weights, ticker, 0)
    /\ selectedRef' = Own
    /\ UNCHANGED <<startDate, endDate, initialInvestment, rebalanceFrequency,
                   marketData, validation, storage, log>>
    /\ Effect(TRUE)

\* handleRemoveAsset(ticker), from the selected assets; the button is
\* disabled when one asset is left
HandleRemoveAsset ==
    /\ UserEvent
    /\ Len(selectedAssets) > 1
    /\ \E ticker \in Selected(selectedAssets) :
          /\ selectedAssets' = WithoutAsset(selectedAssets, ticker)
          /\ weights' = WithoutWeight(weights, ticker)
    /\ selectedRef' = Own
    /\ UNCHANGED <<startDate, endDate, initialInvestment, rebalanceFrequency,
                   marketData, validation, storage, log>>
    /\ Effect(TRUE)

\* handleLoadPreset(presetId)
HandleLoadPreset ==
    /\ UserEvent
    /\ \E presetId \in DOMAIN PORTFOLIO_PRESETS :
          /\ selectedAssets' = PORTFOLIO_PRESETS[presetId].selectedAssets
          /\ selectedRef' = PresetRef(presetId)
          /\ weights' = PORTFOLIO_PRESETS[presetId].weights
          /\ startDate' = PORTFOLIO_PRESETS[presetId].startDate
    /\ endDate' = Today
    /\ rebalanceFrequency' = "none"
    /\ UNCHANGED <<initialInvestment, marketData, validation, storage, log>>
    /\ Effect(selectedRef' # selectedRef)

\* handleLoadConfig(config), config being the k-th saved portfolio
HandleLoadConfig(k) ==
    /\ UserEvent
    /\ k \in 1..Len(storage)
    /\ selectedAssets' = storage[k].selectedAssets
    /\ selectedRef' = SavedRef(k)
    /\ weights' = storage[k].weights
    /\ initialInvestment' = storage[k].initialInvestment
    /\ startDate' = Restored(storage[k], "startDate", startDate)
    /\ endDate' = Restored(storage[k], "endDate", endDate)
    /\ rebalanceFrequency' =
          IF "rebalanceFrequency" \in DOMAIN storage[k]
          THEN storage[k].rebalanceFrequency
          ELSE rebalanceFrequency
    /\ UNCHANGED <<marketData, validation, storage, log>>
    /\ Effect(selectedRef' # selectedRef)

\* PortfolioManager.handleLoad(config) of one of the saved portfolios
HandleLoad == \E k \in 1..Len(storage) : HandleLoadConfig(k)

\* PortfolioManager.handleSave() with saveName typed; the saved portfolios
\* are read again, so none of them is the array selectedAssets refers to.
\* log keeps the currentConfig of each save under the id it got.
HandleSave ==
    /\ UserEvent
    /\ \E saveName \in SaveNames :
          IF saveName = "" \/ WeightsOff(weights)
          THEN UNCHANGED <<storage, selectedRef, log>>
          ELSE /\ storage' = savePortfolioConfig(storage,
                                                 ConfigToSave(saveName), now)
               /\ selectedRef' = Own
               /\ log' = Append(log, [id |-> ConfigId(now),
                                      config |-> CurrentConfig])
    /\ UNCHANGED <<selectedAssets, weights, startDate, endDate,
                   initialInvestment, rebalanceFrequency, marketData,
                   validation>>
    /\ Effect(FALSE)

\* PortfolioManager.handleDelete(id) of one of the saved portfolios,
\* confirmed
HandleDelete ==
    /\ UserEvent
    /\ \E k \in 1..Len(storage) :
          storage' = deletePortfolioConfig(storage, storage[k].id)
    /\ selectedRef' = Own
    /\ UNCHANGED <<selectedAssets, weights, startDate, endDate,
                   initialInvestment, rebalanceFrequency, marketData,
                   validation, log>>
    /\ Effect(FALSE)

\* setStartDate(e.target.value) of the start date input
SetStartDate ==
    /\ UserEvent
    /\ startDate' \in StartDates
    /\ UNCHANGED <<selectedAssets, selectedRef, weights, endDate,
                   initialInvestment, rebalanceFrequency, marketData,
                   validation, storage, log>>
    /\ Effect(FALSE)

\* setEndDate(e.target.value) of the end date input
SetEndDate ==
    /\ UserEvent
    /\ endDate' \in EndDates
    /\ UNCHANGED <<selectedAssets, selectedRef, weights, startDate,
                   initialInvestment, rebalanceFrequency, marketData,
                   validation, storage, log>>
    /\ Effect(FALSE)

\* setRebalanceFrequency(...) of the three buttons
SetRebalanceFrequency ==
    /\ UserEvent
    /\ rebalanceFrequency' \in {"none", "quarterly", "annually"}
    /\ UNCHANGED <<selectedAssets, selectedRef, weights, startDate, endDate,
                   initialInvestment, marketData, validation, storage, log>>
    /\ Effect(FALSE)

\* setInitialInvestment(Number(e.target.value))
SetInitialInvestment ==
    /\ UserEvent
    /\ initialInvestment' \in Investments
    /\ UNCHANGED <<selectedAssets, selectedRef, weights, startDate, endDate,
                   rebalanceFrequency, marketData, validation, storage, log>>
    /\ Effect(FALSE)

\* the response of a fetchData call arrives: the rest of fetchData runs
\* with the weights of the render that started it
FetchComplete ==
    /\ pc = "dashboard"
    /\ \E r \in inFlight :
          LET data == Response(r.assets, r.startDate, r.endDate)
              v == validateAssetsForDateRange(TRUE, data, r.weights)
          IN  /\ marketData' = data
              /\ validation' = v
              /\ weights' = IF ~v.valid
                            THEN FilteredWeights(v, r.weights)
                            ELSE weights
              /\ inFlight' = inFlight \ {r}
    /\ UNCHANGED <<historicalData, dataGiven, initialInvestment,
                   rebalanceFrequency, tz, pc, i, units, lastRebalanceDate,
                   results, log, sp500Data, metrics, storage, now,
                   selectedAssets, selectedRef, startDate, endDate, events,
                   request, allData, filledData>>

NextBuilder ==
    \/ HandleWeightChange
    \/ HandleAddAsset
    \/ HandleRemoveAsset
    \/ HandleLoadPreset
    \/ HandleLoad
    \/ HandleSave
    \/ HandleDelete
    \/ SetStartDate
    \/ SetEndDate
    \/ SetRebalanceFrequency
    \/ SetInitialInvestment
    \/ FetchComplete

SpecBuilder == InitBuilder /\ [][NextBuilder]_vars

---------------------------------------------------------------------------
(* Properties *)

\* the call of calculatePortfolioHistory has returned
Returned == pc \in {"done", "metrics"}

NonEmptyInput == dataGiven /\ Len(historicalData) > 0

\* the call is in its loop or has returned from it
Entered == NonEmptyInput /\ pc \in {"loop", "done", "metrics"}

\* record k (1-based) holds a positive price for ticker t
PositivePrice(k, t) ==
    /\ t \in DOMAIN historicalData[k].prices
    /\ historicalData[k].prices[t] > 0

\* the price of ticker t in record k as a number, 0 when absent
PriceOrZero(k, t) ==
    IF t \in DOMAIN historicalData[k].prices
    THEN Num(historicalData[k].prices[t])
    ELSE Zero

RECURSIVE WeightTotal(_)
\* the sum of the weights of the tickers of S
WeightTotal(S) ==
    IF S = {} THEN 0
    ELSE LET t == CHOOSE x \in S : TRUE
         IN  weights[t] + WeightTotal(S \ {t})

\* a rebalance happened in some iteration 1..k of the log
RebalancedUpTo(k) == \E j \in 1..k : log[j].rebalanced

\* C1: for non-empty input the result holds one point per input record, in
\* input order, and point k carries the date of record k (during the loop:
\* of the records read so far).
C1_OnePointPerRecord ==
    /\ pc = "loop" =>
          /\ Len(results) = i
          /\ \A k \in 1..Len(results) :
                results[k].date = historicalData[k].date
    /\ (Returned /\ NonEmptyInput) =>
          /\ Len(results) = Len(historicalData)
          /\ \A k \in 1..Len(historicalData) :
                results[k].date = historicalData[k].date

C1_Witness ==
    /\ pc = "done"
    /\ Len(historicalData) = 3
    /\ Len(results) = 3
    /\ RebalancedUpTo(Len(log))

\* C2 (as stated): if every weighted ticker has a positive price in the
\* first record, the first value equals initialInvestment.
C2_FirstValueIsInvestment ==
    (Len(results) >= 1 /\ \A t \in DOMAIN weights : PositivePrice(1, t))
        => results[1].value = Num(initialInvestment)

\* C2 (amended): if every weighted ticker has a positive price in the first
\* record, the first value is initialInvestment * (sum of weights) / 100,
\* which is initialInvestment when the weights sum to 100.
C2_FirstValueIsWeightedInvestment ==
    (Len(results) >= 1 /\ \A t \in DOMAIN weights : PositivePrice(1, t))
        => /\ results[1].value =
                 Norm(initialInvestment * WeightTotal(DOMAIN weights), 100)
           /\ WeightTotal(DOMAIN weights) = 100
                 => results[1].value = Num(initialInvestment)

C2_Witness ==
    /\ Len(results) >= 1
    /\ \A t \in DOMAIN weights : PositivePrice(1, t)
    /\ Cardinality(DOMAIN weights) = 2
    /\ WeightTotal(DOMAIN weights) = 100
    /\ results[1].value = Num(1000)

\* C3: a weighted ticker without a positive price in the first record gets
\* 0 units at initialization, and holds 0 units and contributes 0 to the
\* value of every date up to (excluding) the first date on which a rebalance
\* is triggered while its price is positive.
C3_ZeroUnitsUntilRebalance ==
    Entered =>
        \A t \in DOMAIN weights :
            ~PositivePrice(1, t) =>
                /\ Len(log) = 0 => units[t] = Zero
                /\ \A k \in 1..Len(log) :
                      /\ k = 1 => log[k].unitsBefore[t] = Zero
                      /\ (~\E j \in 1..k :
                              log[j].rebalanced /\ PositivePrice(j, t))
                          => /\ log[k].unitsAfter[t] = Zero
                             /\ RMul(log[k].unitsAfter[t], PriceOrZero(k, t))
                                    = Zero

\* SOL unpriced on day 0, priced but still contributing 0 on the second
\* date, and bought by a rebalance on the third
C3_Witness ==
    /\ pc = "done"
    /\ Len(log) = 3
    /\ "SOL" \in DOMAIN weights
    /\ ~PositivePrice(1, "SOL")
    /\ PositivePrice(2, "SOL") /\ ~log[2].rebalanced
    /\ log[2].unitsAfter["SOL"] = Zero
    /\ log[3].rebalanced /\ RPositive(log[3].unitsAfter["SOL"])

\* C4: under 'none' the units are those computed from the first record on
\* every date: value[k] is the sum over the weighted tickers of
\* units0[t] * price[t, k], and a ticker without a positive price in the
\* first record contributes 0 on every date.
C4_NoneKeepsInitialUnits ==
    (rebalanceFrequency = "none" /\ Entered) =>
        LET units0 == [t \in DOMAIN weights |->
                          IF PositivePrice(1, t)
                          THEN Norm(initialInvestment * weights[t],
                                    100 * historicalData[1].prices[t])
                          ELSE Zero]
        IN  /\ units = units0
            /\ \A k \in 1..Len(results) :
                  /\ log[k].unitsAfter = units0
                  /\ results[k].value =
                        SumOver(DOMAIN weights,
                                [t \in DOMAIN weights |->
                                    RMul(units0[t], PriceOrZero(k, t))],
                                Zero)
                  /\ \A t \in DOMAIN weights :
                        ~PositivePrice(1, t) =>
                            RMul(units[t], PriceOrZero(k, t)) = Zero

\* under 'none', SOL unpriced on day 0 and priced afterwards: its 40% stay
\* uninvested on the last date
C4_Witness ==
    /\ pc = "done"
    /\ rebalanceFrequency = "none"
    /\ Len(results) = 3
    /\ "SOL" \in DOMAIN weights
    /\ ~PositivePrice(1, "SOL")
    /\ PositivePrice(2, "SOL") /\ PositivePrice(3, "SOL")
    /\ units["SOL"] = Zero


\* the decision of the policy on the calendar dates as written
CalendarDecision(current, last, frequency) ==
    CASE frequency = "none" -> FALSE
      [] frequency = "quarterly" ->
            \/ current.year > last.year
            \/ /\ current.year = last.year
               /\ (current.month - 1) \div 3 > (last.month - 1) \div 3
      [] frequency = "annually" -> current.year > last.year

\* C5: date 0 is never a rebalance date, and date i > 0 is a rebalance date
\* exactly when the policy decides so for the (year, quarter) or the year of
\* date i against those of the last rebalance date (initially date 0).
C5_RebalanceIffPolicyDecides ==
    Entered =>
        \A k \in 1..Len(log) :
            /\ k = 1 => log[k].lastBefore = historicalData[1].date
            /\ k > 1 => log[k].lastBefore = log[k - 1].lastAfter
            /\ log[k].rebalanced <=>
                  /\ k > 1
                  /\ CalendarDecision(historicalData[k].date,
                                      log[k].lastBefore, rebalanceFrequency)

\* the value of the holdings u at the prices of record k
ValueAt(k, u) ==
    SumOver(DOMAIN weights,
            [t \in DOMAIN weights |-> RMul(u[t], PriceOrZero(k, t))],
            Zero)

\* C6: on a rebalance date, with V the value of the pre-rebalance units at
\* that date's prices, every weighted ticker with a positive price gets
\* units = V * weight/100 / price (units * price = V * weight/100), every
\* other weighted ticker gets 0 units, the date becomes the last-rebalance
\* date, and the value reported for the date is that of the new units.
C6_RebalanceDerivesUnitsFromValue ==
    Entered =>
        \A k \in 1..Len(log) :
            log[k].rebalanced =>
                LET V == ValueAt(k, log[k].unitsBefore)
                IN  /\ \A t \in DOMAIN weights :
                          IF PositivePrice(k, t)
                          THEN /\ log[k].unitsAfter[t] =
                                     RDiv(RMul(V, Norm(weights[t], 100)),
                                          PriceOrZero(k, t))
                               /\ RMul(log[k].unitsAfter[t], PriceOrZero(k, t))
                                     = RMul(V, Norm(weights[t], 100))
                          ELSE log[k].unitsAfter[t] = Zero
                    /\ log[k].lastAfter = historicalData[k].date
                    /\ k = Len(log) =>
                          /\ lastRebalanceDate = historicalData[k].date
                          /\ units = log[k].unitsAfter
                    /\ results[k].value = ValueAt(k, log[k].unitsAfter)

\* a rebalance of a two-asset portfolio, both priced, that changes the
\* holdings of both
C6_Witness ==
    /\ Entered
    /\ Len(log) >= 2
    /\ log[Len(log)].rebalanced
    /\ Cardinality(DOMAIN weights) = 2
    /\ \A t \in DOMAIN weights :
          /\ PositivePrice(Len(log), t)
          /\ RPositive(log[Len(log)].unitsBefore[t])
          /\ log[Len(log)].unitsAfter[t] # log[Len(log)].unitsBefore[t]

\* one ticker with weight 100
SingleAsset ==
    /\ Cardinality(DOMAIN weights) = 1
    /\ \A t \in DOMAIN weights : weights[t] = 100

\* the result of the call on the same arguments under 'none'
ResultsUnderNone ==
    calculatePortfolioHistory(dataGiven, historicalData, weights,
                              initialInvestment, "none", tz)

\* C7 (as stated): for a single ticker with weight 100 the series under
\* 'quarterly' and 'annually' is the series under 'none'.
C7_SingleAssetPolicyIrrelevant ==
    (pc = "done" /\ SingleAsset) => results = ResultsUnderNone

\* C7 (amended): ... provided the ticker has a positive price on every date
\* on which a rebalance is triggered while units are held.
C7_SingleAssetPolicyIrrelevantWhenPriced ==
    (/\ pc = "done"
     /\ SingleAsset
     /\ \A k \in 1..Len(log) : \A t \in DOMAIN weights :
           (log[k].rebalanced /\ log[k].unitsBefore[t] # Zero)
               => PositivePrice(k, t))
        => results = ResultsUnderNone

C7_Witness ==
    /\ pc = "done"
    /\ SingleAsset
    /\ rebalanceFrequency # "none"
    /\ Len(log) = 3
    /\ log[2].rebalanced /\ log[3].rebalanced
    /\ \A k \in 1..3 : PositivePrice(k, "BTC")
    /\ results[1].value = Num(1000)
    /\ results[2].value = Num(1100)
    /\ results[3].value = Num(1000)

\* every record prices the ticker, each price above the one before
StrictlyIncreasingPrices(t) ==
    /\ \A k \in 1..Len(historicalData) : t \in DOMAIN historicalData[k].prices
    /\ \A k \in 1..(Len(historicalData) - 1) :
          historicalData[k].prices[t] < historicalData[k + 1].prices[t]

PricesAre(t, ps) ==
    /\ Len(historicalData) = Len(ps)
    /\ \A k \in 1..Len(ps) :
          /\ t \in DOMAIN historicalData[k].prices
          /\ historicalData[k].prices[t] = ps[k]

\* C8 (as stated): single ticker, weight 100, strictly increasing prices,
\* 'none': value[i] = initialInvestment * price[i] / price[0] for every i and
\* the series is strictly increasing; prices 100, 110, 121 and initial
\* investment 1000 give 1000, 1100, 1210 and totalReturn 0.21.
C8_BuyAndHoldFollowsPrice ==
    (/\ Returned /\ NonEmptyInput
     /\ SingleAsset
     /\ rebalanceFrequency = "none"
     /\ StrictlyIncreasingPrices("BTC"))
        => /\ \A k \in 1..Len(results) :
                 results[k].value =
                     Norm(initialInvestment * historicalData[k].prices["BTC"],
                          historicalData[1].prices["BTC"])
           /\ \A k \in 1..(Len(results) - 1) :
                 RLess(results[k].value, results[k + 1].value)
           /\ (PricesAre("BTC", <<100, 110, 121>>) /\ initialInvestment = 1000)
                 => /\ results[1].value = Num(1000)
                    /\ results[2].value = Num(1100)
                    /\ results[3].value = Num(1210)
                    /\ pc = "metrics" => metrics.totalReturn = Norm(21, 100)

\* C8 (amended): ... with a positive first price: value[i] =
\* initialInvestment * price[i] / price[0] for every i, and the series is
\* strictly increasing when initialInvestment > 0; the example as stated.
C8_BuyAndHoldFollowsPositivePrice ==
    (/\ Returned /\ NonEmptyInput
     /\ SingleAsset
     /\ rebalanceFrequency = "none"
     /\ StrictlyIncreasingPrices("BTC")
     /\ historicalData[1].prices["BTC"] > 0)
        => /\ \A k \in 1..Len(results) :
                 results[k].value =
                     Norm(initialInvestment * historicalData[k].prices["BTC"],
                          historicalData[1].prices["BTC"])
           /\ initialInvestment > 0 =>
                 \A k \in 1..(Len(results) - 1) :
                     RLess(results[k].value, results[k + 1].value)
           /\ (PricesAre("BTC", <<100, 110, 121>>) /\ initialInvestment = 1000)
                 => /\ results[1].value = Num(1000)
                    /\ results[2].value = Num(1100)
                    /\ results[3].value = Num(1210)
                    /\ pc = "metrics" => metrics.totalReturn = Norm(21, 100)

C8_Witness ==
    /\ pc = "metrics"
    /\ SingleAsset
    /\ rebalanceFrequency = "none"
    /\ PricesAre("BTC", <<100, 110, 121>>)
    /\ initialInvestment = 1000
    /\ results[3].value = Num(1210)
    /\ metrics.totalReturn = Norm(21, 100)

\* C9: on an empty or missing price sequence the call returns an empty
\* series and does not throw.
C9_EmptyInputEmptySeries ==
    (~dataGiven \/ Len(historicalData) = 0) =>
        /\ pc \in {"start", "done", "metrics"}
        /\ results = <<>>
        /\ pc = "start" => ENABLED HistoryCall

C9_Witness ==
    /\ pc = "done"
    /\ ~dataGiven
    /\ results = <<>>
    /\ rebalanceFrequency = "quarterly"
    /\ initialInvestment = 1000

\* C10: on a series of 0 or 1 points calculateMetrics does not throw and
\* returns finalBalance = initialInvestment, the seven ratios 0, and neither
\* monthlyStats nor sp500Correlation, whatever the benchmark.
C10_DegenerateMetrics ==
    Len(results) < 2 =>
        /\ pc # "metrics threw"
        /\ pc = "done" => ENABLED CalcMetrics
        /\ pc = "metrics" =>
              /\ DOMAIN metrics =
                    {"initialInvestment", "finalBalance", "totalReturn",
                     "cagr", "volatility", "sharpeRatio", "bestDay",
                     "worstDay", "maxDrawdown"}
              /\ metrics.initialInvestment = Num(initialInvestment)
              /\ metrics.finalBalance = Num(initialInvestment)
              /\ \A f \in {"totalReturn", "cagr", "volatility", "sharpeRatio",
                           "bestDay", "worstDay", "maxDrawdown"} :
                    metrics[f] = Zero

\* a one-point series worth less than the investment, with a two-point
\* benchmark
C10_Witness ==
    /\ pc = "metrics"
    /\ Len(results) = 1
    /\ results[1].value # Num(initialInvestment)
    /\ sp500Data.given /\ Len(sp500Data.rows) = 2
    /\ metrics.finalBalance = Num(1000)

---------------------------------------------------------------------------
(* Properties of calculateMetrics and calculateMonthlyPerformance.  The   *)
(* series the metrics were computed from is results.                      *)

\* calculateMetrics has returned
MetricsReturned == pc = "metrics"

\* calculateMetrics has returned from its non-degenerate branch
FullMetrics == MetricsReturned /\ Len(results) >= 2

NonNegative(pv) == \A k \in 1..Len(pv) : RLeq(Zero, pv[k].value)

NonDecreasing(pv) ==
    \A k \in 1..(Len(pv) - 1) : RLeq(pv[k].value, pv[k + 1].value)

\* the values of pv are the integers vs
ValuesAre(pv, vs) ==
    /\ Len(pv) = Len(vs)
    /\ \A k \in 1..Len(vs) : pv[k].value = Num(vs[k])

\* dates in ascending order (a date may repeat)
Chronological(pv) ==
    \A k \in 1..(Len(pv) - 1) : DateKey(pv[k].date) <= DateKey(pv[k + 1].date)

\* C11: maxDrawdown is 0 for every series of at least 2 non-negative points
\* that never decreases, and 1/2 for the series 100, 50.
C11_MaxDrawdown ==
    FullMetrics =>
        /\ NonNegative(results) /\ NonDecreasing(results) =>
               metrics.maxDrawdown = Zero
        /\ ValuesAre(results, <<100, 50>>) => metrics.maxDrawdown = <<1, 2>>

\* a price of 0 or no price for a weighted ticker in some record
HasZeroOrMissingPrice ==
    \E k \in 1..Len(historicalData) : \E t \in DOMAIN weights :
        ~Truthy(historicalData[k], t)

\* a number that is neither NaN nor infinite
DefinedNumber(x) == IsTerm(x) \/ IsFinite(x)

ScalarMetrics ==
    {"initialInvestment", "finalBalance", "totalReturn", "cagr", "volatility",
     "sharpeRatio", "bestDay", "worstDay", "maxDrawdown"}

\* C12: on the series that calculatePortfolioHistory produces from price
\* data with zero or missing prices, calculateMetrics returns, without
\* throwing, scalar metrics that are defined numbers (no result of a
\* division by zero), and a correlation that is a defined number or
\* undefined.  Stated for a positive investment.
C12_DegradesWithoutDivisionByZero ==
    /\ pc \notin {"history threw", "metrics threw"}
    /\ MetricsReturned /\ HasZeroOrMissingPrice /\ initialInvestment > 0 =>
          /\ \A f \in ScalarMetrics : DefinedNumber(metrics[f])
          /\ "sp500Correlation" \in DOMAIN metrics =>
                \/ metrics.sp500Correlation = Undefined
                \/ DefinedNumber(metrics.sp500Correlation)

\* the months of pv in the order of their first point
RECURSIVE MonthsOf(_)
MonthsOf(pv) ==
    IF Len(pv) = 0 THEN <<>>
    ELSE LET before == MonthsOf(SubSeq(pv, 1, Len(pv) - 1))
             m == MonthOf(pv[Len(pv)].date)
         IN  IF \E k \in 1..Len(before) : before[k] = m THEN before
             ELSE Append(before, m)

\* the indices of the points of pv in the month m
PointsIn(pv, m) == {k \in 1..Len(pv) : MonthOf(pv[k].date) = m}

Least(S) == CHOOSE k \in S : \A j \in S : k <= j
Greatest(S) == CHOOSE k \in S : \A j \in S : j <= k

\* C13: for a chronologically ordered series of at least 2 points the
\* monthly data has exactly one entry per calendar month of the series, in
\* order; an entry's startValue and endValue are the values of the first
\* and the last point of its month, its return is endValue / startValue - 1,
\* and the return of a month with a single point is 0.
C13_MonthlyEntries ==
    FullMetrics /\ Chronological(results) =>
        LET md == metrics.monthlyStats.monthlyData
            months == MonthsOf(results)
        IN  /\ Len(md) = Len(months)
            /\ \A k \in 1..Len(md) :
                  LET points == PointsIn(results, months[k])
                  IN  /\ md[k].month = months[k]
                      /\ md[k].startValue = results[Least(points)].value
                      /\ md[k].endValue = results[Greatest(points)].value
                      /\ md[k].return =
                            RSub(RDiv(md[k].endValue, md[k].startValue), Num(1))
                      /\ Cardinality(points) = 1 => md[k].return = Zero

\* the first index whose return is at least (sign = 1) or at most
\* (sign = -1) every return of md; 0 when there is none
FirstExtreme(md, sign) ==
    LET extreme == {k \in 1..Len(md) :
                       \A j \in 1..Len(md) :
                           IF sign = 1 THEN RLeq(md[j].return, md[k].return)
                           ELSE RLeq(md[k].return, md[j].return)}
    IN  IF extreme = {} THEN 0 ELSE Least(extreme)

\* C14: upMonths counts the months with return > 0, downMonths those with
\* return <= 0; bestMonth is the first month attaining the maximum return
\* and worstMonth the first month attaining the minimum return.
C14_MonthlyAggregates ==
    FullMetrics /\ Chronological(results) =>
        LET stats == metrics.monthlyStats
            md == stats.monthlyData
        IN  /\ stats.upMonths =
                  Cardinality({k \in 1..Len(md) : RLess(Zero, md[k].return)})
            /\ stats.downMonths =
                  Cardinality({k \in 1..Len(md) : RLeq(md[k].return, Zero)})
            /\ FirstExtreme(md, 1) # 0
            /\ stats.bestMonth = md[FirstExtreme(md, 1)]
            /\ FirstExtreme(md, 0 - 1) # 0
            /\ stats.worstMonth = md[FirstExtreme(md, 0 - 1)]

---------------------------------------------------------------------------
(* Properties of the S&P 500 correlation.  The benchmark is sp500Data.    *)

\* the benchmark dates with a positive value
QuotedDates(rows) ==
    {rows[k].date : k \in {j \in 1..Len(rows) : RLess(Zero, rows[j].value)}}

\* the benchmark dates with a positive value that are not later than t
QuotedUpTo(rows, t) == {d \in QuotedDates(rows) : DateKey(d) <= DateKey(t)}

\* the nearest benchmark date of t by its contract: t itself when quoted,
\* else the greatest quoted date before it, else none (NoDate)
NearestQuoted(rows, t) ==
    IF t \in QuotedDates(rows) THEN t
    ELSE IF QuotedUpTo(rows, t) = {} THEN NoDate
    ELSE CHOOSE d \in QuotedUpTo(rows, t) :
             \A e \in QuotedUpTo(rows, t) : DateKey(e) <= DateKey(d)

\* the positive value of the benchmark on the date d (the last such row)
QuoteOn(rows, d) ==
    rows[Greatest({k \in 1..Len(rows) :
                      rows[k].date = d /\ RLess(Zero, rows[k].value)})].value

\* the strides: the points 5, 10, ... after the first, each with the point
\* 5 before it (as 1-based indices of the later point)
Strides(pv) == {k \in 1..Len(pv) : k > 1 /\ (k - 1) % stepSize = 0}

\* the strides that are not skipped: both endpoints have a nearest
\* benchmark date and the two dates differ
StridesKept(pv, rows) ==
    {k \in Strides(pv) :
        /\ NearestQuoted(rows, pv[k].date) # NoDate
        /\ NearestQuoted(rows, pv[k - stepSize].date) # NoDate
        /\ NearestQuoted(rows, pv[k].date)
              # NearestQuoted(rows, pv[k - stepSize].date)}

RECURSIVE InOrder(_)
\* the numbers of S in ascending order
InOrder(S) == IF S = {} THEN <<>> ELSE <<Least(S)>> \o InOrder(S \ {Least(S)})

\* the return pairs of the kept strides
StrideReturns(pv, rows, kept) ==
    [n \in 1..Len(kept) |->
        [portfolio |-> RSub(RDiv(pv[kept[n]].value,
                                 pv[kept[n] - stepSize].value), Num(1)),
         sp500 |-> RSub(RDiv(QuoteOn(rows, NearestQuoted(rows, pv[kept[n]].date)),
                             QuoteOn(rows, NearestQuoted(rows,
                                               pv[kept[n] - stepSize].date))),
                        Num(1))]]

\* the points with a nearest benchmark date
Aligned(pv, rows) ==
    {k \in 1..Len(pv) : NearestQuoted(rows, pv[k].date) # NoDate}

\* the points that give a pair in the date-by-date pass: the last aligned
\* point before has another nearest benchmark date and a non-zero value
AlignedPairs(pv, rows, aligned) ==
    {k \in aligned :
        /\ \E j \in aligned : j < k
        /\ LET j == Greatest({l \in aligned : l < k})
           IN  /\ NearestQuoted(rows, pv[j].date)
                     # NearestQuoted(rows, pv[k].date)
               /\ NumTruthy(pv[j].value)}

CorrelationDefined ==
    /\ "sp500Correlation" \in DOMAIN metrics
    /\ metrics.sp500Correlation # Undefined

\* the rule of C15 for a series pv and benchmark rows with the kept strides
\* and the number of date-by-date pairs
CorrelationRule(pv, rows, kept, pairs) ==
    /\ CorrelationDefined <=>
          /\ sp500Data.given /\ Len(rows) >= 2
          /\ Len(kept) >= MinWeeklyPairs \/ pairs >= MinAlignedPairs
    /\ sp500Data.given /\ Len(rows) >= 2 /\ Len(kept) >= MinWeeklyPairs =>
          metrics.sp500Correlation = CorrelationOf(StrideReturns(pv, rows, kept))

\* C15: sp500Correlation is set exactly when a benchmark of at least 2
\* points is given and the stride pass keeps at least 10 strides or, that
\* pass having kept fewer, the date-by-date pass yields at least 20 pairs;
\* with at least 10 kept strides the result is the correlation of the
\* stride pairs (the fallback does not decide); a stride is skipped when
\* the nearest benchmark dates of its endpoints coincide or one is missing.
C15_CorrelationThresholds ==
    MetricsReturned =>
        CorrelationRule(results, sp500Data.rows,
                        InOrder(StridesKept(results, sp500Data.rows)),
                        Cardinality(AlignedPairs(results, sp500Data.rows,
                                        Aligned(results, sp500Data.rows))))

\* 56 points whose benchmark starts on the third day: the first stride is
\* skipped, the other ten are kept and decide, although the date-by-date
\* pass would yield 20 pairs and another correlation
C15_Witness ==
    /\ MetricsReturned
    /\ sp500Data.given
    /\ Cardinality(Strides(results)) = MinWeeklyPairs + 1
    /\ Cardinality(StridesKept(results, sp500Data.rows)) = MinWeeklyPairs
    /\ LET aligned == AlignedReturns(results, Sp500Index(sp500Data.rows))
       IN  /\ Len(aligned) >= MinAlignedPairs
           /\ CorrelationOf(aligned) # metrics.sp500Correlation
    /\ CorrelationDefined

\* the contract of the lookup for the target t and its result n
LookupMeets(rows, t, n) ==
    /\ t \in QuotedDates(rows) => n = t
    /\ t \notin QuotedDates(rows) =>
          IF QuotedUpTo(rows, t) = {} THEN n = NoDate
          ELSE /\ n \in QuotedUpTo(rows, t)
               /\ \A e \in QuotedUpTo(rows, t) : DateKey(e) <= DateKey(n)
    /\ n # NoDate => DateKey(n) <= DateKey(t)

\* the lookups of calculateMetrics: one per date of the series
AllLookupsMeet(pv, rows, index) ==
    \A k \in 1..Len(pv) :
        LookupMeets(rows, pv[k].date, findNearestSp500Date(index, pv[k].date))

\* C16: the nearest-benchmark-date lookup returns the target date when the
\* benchmark has a positive value on it, otherwise the greatest benchmark
\* date with a positive value that is not later than the target, and no
\* date when there is none; it never returns a date after the target.
C16_NearestBenchmarkDate ==
    MetricsReturned /\ BenchmarkUsable(results, sp500Data) =>
        AllLookupsMeet(results, sp500Data.rows, Sp500Index(sp500Data.rows))

\* the three outcomes of the lookup for the target t with the result n
LookupOutcomes(rows, index, first, second, third) ==
    /\ findNearestSp500Date(index, first) = NoDate
    /\ findNearestSp500Date(index, second) = second
    /\ findNearestSp500Date(index, third) \notin {NoDate, third, second}
    /\ \E k \in 1..Len(rows) : rows[k].date = third /\ rows[k].value = Zero

\* a benchmark with a row without value on the third date looked up, a
\* quote on the second and nothing up to the first
C16_Witness ==
    /\ MetricsReturned /\ BenchmarkUsable(results, sp500Data)
    /\ Len(results) > 2 * stepSize
    /\ \E a, b, c \in 1..(2 * stepSize) :
          /\ a < b /\ b < c
          /\ LookupOutcomes(sp500Data.rows, Sp500Index(sp500Data.rows),
                            results[a].date, results[b].date, results[c].date)

\* -1 <= c <= 1, for a rational c or a quotient n / sqrt(p) with p > 0
InUnitInterval(c) ==
    IF IsTerm(c)
    THEN /\ c[1] = "div" /\ ~IsTerm(c[2]) /\ IsTerm(c[3])
         /\ c[3][1] = "pow" /\ c[3][3] = Half
         /\ RLeq(RDiv(Square(c[2]), c[3][2]), Num(1))
    ELSE RLeq(Num(0 - 1), c) /\ RLeq(c, Num(1))

\* the benchmark is the value series itself
SelfBenchmark == sp500Data.given /\ sp500Data.rows = results

\* C17: with the value series itself as the benchmark the correlation,
\* when one is computed, is 1; and every computed correlation lies in
\* [-1, 1].
C17_SelfCorrelationAndRange ==
    MetricsReturned /\ CorrelationDefined =>
        /\ SelfBenchmark => metrics.sp500Correlation = Num(1)
        /\ InUnitInterval(metrics.sp500Correlation)

---------------------------------------------------------------------------
(* Properties of validateAssetsForDateRange and of repeated calls *)

ValidationReturned == validation # NoValidation

\* the record rec has a positive price of the ticker t
PositiveOn(rec, t) == t \in DOMAIN rec.prices /\ rec.prices[t] > 0

\* x is an element of the array seq
InArray(x, seq) == \E k \in 1..Len(seq) : seq[k] = x

\* the records in which every weighted ticker has a positive price
AllPositive(hd, w) ==
    {k \in 1..Len(hd) : \A t \in DOMAIN w : PositiveOn(hd[k], t)}

\* C18: on non-empty price data a weighted ticker is in invalidAssets iff
\* its price in the first record is not a positive number, and otherwise
\* in validAssets; earliestValidDate is the date of the first record in
\* which all weighted tickers have a positive price, or the empty string
\* when there is no such record.
C18_AssetValidation ==
    ValidationReturned /\ dataGiven /\ Len(historicalData) > 0 =>
        /\ \A t \in DOMAIN weights :
              /\ InArray(t, validation.invalidAssets)
                    <=> ~PositiveOn(historicalData[1], t)
              /\ InArray(t, validation.validAssets)
                    <=> PositiveOn(historicalData[1], t)
        /\ validation.earliestValidDate =
              IF AllPositive(historicalData, weights) = {} THEN NoDate
              ELSE historicalData[Least(AllPositive(historicalData,
                                                    weights))].date

\* a ticker is invalid and another valid on the first record, and all are
\* priced from the second record on
C18_Witness ==
    /\ ValidationReturned /\ dataGiven /\ Len(historicalData) > 1
    /\ Len(validation.invalidAssets) > 0
    /\ Len(validation.validAssets) > 0
    /\ validation.earliestValidDate = historicalData[2].date

\* what the finished calls returned is what the functions yield on the
\* arguments
ResultsOfArguments ==
    /\ pc \in {"done", "metrics"} =>
          results = calculatePortfolioHistory(dataGiven, historicalData,
                                              weights, initialInvestment,
                                              rebalanceFrequency, tz)
    /\ pc = "metrics" =>
          metrics = calculateMetrics(results, initialInvestment, sp500Data)
    /\ ValidationReturned =>
          validation = validateAssetsForDateRange(dataGiven, historicalData,
                                                  weights)

\* a step leaves the arguments as they are: the price records and the
\* weight map in every step, the value series in the call of
\* calculateMetrics, and the benchmark once that call has drawn it
ArgumentsKept ==
    /\ UNCHANGED <<historicalData, dataGiven, weights, initialInvestment,
                   rebalanceFrequency>>
    /\ pc' = "metrics" => results' = results
    /\ pc = "metrics" => sp500Data' = sp500Data

C20_GuardedDivisions ==
    FullMetrics =>
        /\ metrics.sharpeRatio =
              IF metrics.volatility = Zero THEN Zero
              ELSE Div(Sub(metrics.cagr, ANNUAL_RISK_FREE_RATE),
                       metrics.volatility)
        /\ metrics.cagr =
              IF DateKey(results[Len(results)].date) <= DateKey(results[1].date)
              THEN Zero
              ELSE Sub(Pow(RDiv(metrics.finalBalance, Num(initialInvestment)),
                           Norm(DaysPerYear,
                                DayNumber(results[Len(results)].date)
                                - DayNumber(results[1].date))),
                       Num(1))

\* two points on one date with the same value, which is not the
\* investment: both guards decide
C20_Witness ==
    /\ FullMetrics
    /\ results[1].date = results[Len(results)].date
    /\ metrics.finalBalance # Num(initialInvestment)
    /\ initialInvestment > 0
    /\ metrics.volatility = Zero /\ metrics.sharpeRatio = Zero
    /\ metrics.cagr = Zero

---------------------------------------------------------------------------
(* Rebalance dates *)

\* the calendar quarter, or the calendar year, of a date as written
PeriodOf(dt, frequency) ==
    IF frequency = "quarterly"
    THEN dt.year * 4 + (dt.month - 1) \div 3
    ELSE dt.year

\* record k is the first record of its period, and that period is later
\* than the period of date 0
OpensLaterPeriod(k, frequency) ==
    /\ k > 1
    /\ PeriodOf(historicalData[k].date, frequency)
          > PeriodOf(historicalData[1].date, frequency)
    /\ PeriodOf(historicalData[k].date, frequency)
          # PeriodOf(historicalData[k - 1].date, frequency)

\* C24: for chronologically ordered dates, under 'quarterly' the rebalance
\* dates are exactly the first records of the calendar quarters later than
\* the quarter of date 0, under 'annually' the first records of the years
\* later than the year of date 0, and the last-rebalance date never moves
\* backwards.
C24_RebalanceDatesOpenPeriods ==
    (Entered /\ rebalanceFrequency \in {"quarterly", "annually"}) =>
        \A k \in 1..Len(log) :
            /\ log[k].rebalanced <=> OpensLaterPeriod(k, rebalanceFrequency)
            /\ DateKey(log[k].lastAfter) >= DateKey(log[k].lastBefore)

\* the share of the weights whose tickers record k prices positively
PricedShare(k) ==
    Norm(PricedWeight(DOMAIN weights, weights, historicalData[k]), 100)

\* C25: the value reported for a rebalance date is the value of the
\* pre-rebalance units at that date's prices times (the sum of the weights
\* of the tickers with a positive price on that date) / 100; so with
\* weights summing to 100 and every weighted ticker priced the value is
\* unchanged by the rebalance.
C25_RebalanceValue ==
    Entered =>
        \A k \in 1..Len(log) :
            log[k].rebalanced =>
                /\ log[k].valueBefore = ValueAt(k, log[k].unitsBefore)
                /\ results[k].value = RMul(log[k].valueBefore, PricedShare(k))
                /\ PricedShare(k) = Num(1) =>
                      results[k].value = log[k].valueBefore

\* a rebalance on a date without a positive price for SOL: the portfolio
\* is worth something before it, and SOL's share of that is gone after it
C25_Witness ==
    /\ pc = "done"
    /\ \E k \in 1..Len(log) :
          /\ log[k].rebalanced
          /\ "SOL" \in DOMAIN weights
          /\ ~PositivePrice(k, "SOL")
          /\ RLess(Zero, log[k].valueBefore)
          /\ RLess(results[k].value, log[k].valueBefore)
          /\ RLess(Zero, results[k].value)

---------------------------------------------------------------------------
(* The shape of an AssetValidation *)

\* the elements of an array
Elements(arr) == {arr[k] : k \in 1..Len(arr)}

\* validAssets and invalidAssets are disjoint and together are exactly the
\* tickers of the weight map
PartitionsWeights ==
    /\ Elements(validation.validAssets)
          \cap Elements(validation.invalidAssets) = {}
    /\ Elements(validation.validAssets)
          \cup Elements(validation.invalidAssets) = DOMAIN weights

\* what the result says for non-empty price data
OnPriceData ==
    NonEmptyInput =>
        validation.valid <=>
            validation.earliestValidDate = historicalData[1].date

\* what the result is for empty price data
OnNoPriceData ==
    ~NonEmptyInput =>
        /\ validation.valid = FALSE
        /\ Elements(validation.invalidAssets) = DOMAIN weights
        /\ validation.earliestValidDate = NoDate

\* C26 as stated: in every result, validAssets and invalidAssets partition
\* the tickers of the weight map, valid is true iff invalidAssets is empty,
\* for non-empty price data valid is true iff earliestValidDate is the date
\* of the first record, and for empty price data valid is false, every
\* weighted ticker is invalid and earliestValidDate is empty.
C26_ValidationShape ==
    ValidationReturned =>
        /\ PartitionsWeights
        /\ validation.valid <=> Len(validation.invalidAssets) = 0
        /\ OnPriceData
        /\ OnNoPriceData

\* C26 amended: valid is true iff invalidAssets is empty only where there
\* are price data; without price data valid is false also for an empty
\* weight map, whose invalidAssets are empty.
C26_ValidationShapeOnData ==
    ValidationReturned =>
        /\ PartitionsWeights
        /\ NonEmptyInput =>
              (validation.valid <=> Len(validation.invalidAssets) = 0)
        /\ OnPriceData
        /\ OnNoPriceData

\* SOL is unpriced on the first record and priced from the second on:
\* invalid, with a later earliest valid date
C26_Witness ==
    /\ ValidationReturned
    /\ Len(historicalData) = 3
    /\ validation.valid = FALSE
    /\ validation.validAssets = <<"BTC">>
    /\ validation.invalidAssets = <<"SOL">>
    /\ validation.earliestValidDate = historicalData[2].date

\* C27: in every MonthlyStats, upMonths + downMonths is the number of
\* entries of monthlyData, and
\* bestMonth.return >= averageReturn >= worstMonth.return.
C27_MonthlyStatsBounds ==
    FullMetrics =>
        LET stats == metrics.monthlyStats
        IN  /\ stats.upMonths + stats.downMonths = Len(stats.monthlyData)
            /\ RLeq(stats.averageReturn, stats.bestMonth.return)
            /\ RLeq(stats.worstMonth.return, stats.averageReturn)

---------------------------------------------------------------------------
(* Saved configurations *)

\* the clock reading of a createdAt string
CreatedAt(config) == config.createdAt[2]

\* the list is in the order of the saves: no configuration is stored
\* before one that was saved at an earlier clock reading
InSaveOrder ==
    \A j, k \in 1..Len(storage) :
        j < k => CreatedAt(storage[j]) <= CreatedAt(storage[k])

\* a save appends the new configuration last, behind the stored ones
\* without the first of them when 10 are stored, and behind all of them
\* otherwise
SaveAppendsLast ==
    SaveConfig =>
        /\ Len(storage') >= 1
        /\ storage'[Len(storage')].id = ConfigId(now)
        /\ SubSeq(storage', 1, Len(storage') - 1) =
              (IF Len(storage) = MAX_CONFIGS THEN Tail(storage) ELSE storage)

\* a delete or an update keeps the stored configurations in their order
OthersKeepOrder ==
    /\ DeleteConfig =>
          \E kept \in SUBSET (1..Len(storage)) :
              /\ Len(storage') = Cardinality(kept)
              /\ \A k \in 1..Len(storage') :
                    storage'[k] =
                        storage[CHOOSE j \in kept :
                                   Cardinality({h \in kept : h < j}) = k - 1]
    /\ UpdateConfig =>
          /\ Len(storage') = Len(storage)
          /\ \A k \in 1..Len(storage) :
                /\ storage'[k].id = storage[k].id
                /\ storage'[k].createdAt = storage[k].createdAt

\* C21: from empty storage, after any sequence of saves, deletes and
\* updates at most 10 configurations are stored; a save that finds 10
\* stored removes the first and appends the new one last, so the list is
\* always in save order.
C21_AtMostTenInSaveOrder ==
    /\ [](Len(storage) <= MAX_CONFIGS /\ InSaveOrder)
    /\ [][SaveAppendsLast /\ OthersKeepOrder]_vars

\* eleven calls, all of them saves, the last of them after the clock
\* advanced: ten are stored, and the first of the eleven is not among them
C21_Witness ==
    /\ pc = "storage"
    /\ events = MAX_CONFIGS + 1
    /\ Len(storage) = MAX_CONFIGS
    /\ CreatedAt(storage[1]) = 0
    /\ CreatedAt(storage[MAX_CONFIGS]) = 1
    /\ \A k \in 1..Len(storage) : storage[k].name = "mine"

\* C22: the stored configurations have pairwise different ids, also when
\* saves are made within one clock millisecond, so a delete or an update
\* by id affects exactly one stored configuration.
C22_DistinctIds ==
    pc = "storage" =>
        \A j, k \in 1..Len(storage) :
            j # k => storage[j].id # storage[k].id

---------------------------------------------------------------------------
(* The response of the market-data route *)

Responded == pc = "responded"

\* the symbols fetched: the well-formed assets of the request and the index
Fetched == {a \in Elements(request.assets) : IsAssetName(a)} \cup {GSPC}

\* the rows of symbol s that carry a price: its observations
Observations(s) == {j \in 1..Len(allData[s]) : HasPrice(allData[s][j])}

\* the UTC day of the j-th row of symbol s
DayOfRow(s, j) == allData[s][j].date[1]

\* the dates observed for any fetched symbol
ObservedDates ==
    UNION {{DayOfRow(s, j) : j \in 1..Len(allData[s])} : s \in Fetched}

\* the observations of s on the date d, and those before it
ObservedOn(s, d) == {j \in Observations(s) : DayOfRow(s, j) = d}
ObservedBefore(s, d) ==
    {j \in Observations(s) : DateKey(DayOfRow(s, j)) < DateKey(d)}

\* the latest of the observations js of symbol s
Latest(s, js) ==
    CHOOSE j \in js :
        \A h \in js : DateKey(DayOfRow(s, h)) <= DateKey(DayOfRow(s, j))

\* the value the claim gives symbol s on date d
FilledValue(s, d) ==
    IF ObservedOn(s, d) # {}
    THEN PriceOf(allData[s][Latest(s, ObservedOn(s, d))])
    ELSE IF ObservedBefore(s, d) # {}
    THEN PriceOf(allData[s][Latest(s, ObservedBefore(s, d))])
    ELSE 0

\* C23: the response has one record per distinct date observed for any
\* fetched symbol, in ascending date order; each record has a value for
\* every fetched symbol, which is the symbol's observed price for the date
\* if there is one, else its most recent earlier observed price, else 0;
\* so from a symbol's first observation on its value is an observed price.
C23_AlignedForwardFilled ==
    Responded =>
        /\ Len(filledData) = Cardinality(ObservedDates)
        /\ {filledData[k].date : k \in 1..Len(filledData)} = ObservedDates
        /\ \A k \in 1..(Len(filledData) - 1) :
              DateKey(filledData[k].date) < DateKey(filledData[k + 1].date)
        /\ \A k \in 1..Len(filledData) :
              /\ DOMAIN filledData[k].prices = Fetched
              /\ \A s \in Fetched :
                    /\ filledData[k].prices[s] =
                          FilledValue(s, filledData[k].date)
                    /\ ObservedBefore(s, filledData[k].date) # {} =>
                          filledData[k].prices[s] \in
                              {PriceOf(allData[s][j]) : j \in Observations(s)}

\* BTC has no row on the first date, a price on the second and a row
\* without a price on the third: 0, the price, and the price again
C23_Witness ==
    /\ Responded
    /\ Len(filledData) = 3
    /\ Len(allData["BTC"]) = 2
    /\ ~HasPrice(allData["BTC"][2])
    /\ filledData[1].prices["BTC"] = 0
    /\ filledData[2].prices["BTC"] = 5
    /\ filledData[3].prices["BTC"] = 5
    /\ filledData[1].prices[GSPC] > 0

---------------------------------------------------------------------------
(* Properties of the dashboard: PortfolioBuilder and PortfolioManager *)

\* the currentConfig that handleSave saw when it saved under the id
SavedAs(id) == (CHOOSE e \in Selected(log) : e.id = id).config

LatestResponse == Response(selectedAssets, startDate, endDate)

\* assetValidation sorts the tickers by the first record of the data
ValidationOf(data) ==
    /\ "valid" \in DOMAIN validation
    /\ Len(data) > 0
    /\ \A k \in 1..Len(validation.validAssets) :
          ~IsInvalidPrice(data[1], validation.validAssets[k])
    /\ \A k \in 1..Len(validation.invalidAssets) :
          IsInvalidPrice(data[1], validation.invalidAssets[k])

C30_WeightsOfSelection ==
    /\ Len(selectedAssets) > 0
    /\ DOMAIN weights = Selected(selectedAssets)

===========================================================================
